---- MODULE Spec2Model ----
(***************************************************************************)
(* Model of gistax/desoto: the title-chain service (title_chain.py) and    *)
(* the tabs of the window that run work on threads (gui/*.py).             *)
(*                                                                         *)
(* Text is a sequence of one-character strings, so that substring tests,   *)
(* slices, upper() and strip() are computed rather than assumed.  A        *)
(* datetime is a record [day, tod]: the proleptic Gregorian ordinal of its *)
(* date and its time of day in seconds; datetimes built by parse_date are  *)
(* at midnight (tod = 0), datetime.now() is not.                           *)
(***************************************************************************)
EXTENDS Integers, Sequences, FiniteSets, TLC

VARIABLES
    pc,               \* position of the modelled call: "call" or "return"
    entries,          \* get_24_month_chain: the entries argument
    processing_date,  \* get_24_month_chain: the processing_date argument
    instrument_in,    \* is_vesting_deed: the instrument argument
    text_in,          \* parse_chain_text: the text argument
    pdf,              \* process_title_pdf: what the two PDF readers make of pdf_path
    chain_deeds,      \* process_title_pdf: chain_deeds
    document,         \* the document saved at output_path, or None
    matrices,         \* extract_chain_from_tables: the tableMatrices argument
    result,           \* the value returned by the call
    threads,          \* the worker threads started so far, in the order of their start
    after_queue,      \* the callbacks handed to after(0, ...) that have not run yet
    messagebox,       \* the message boxes that are open, the last opened last
    shared_data,      \* shared_data: key -> value
    status_var,       \* TitleTab.status_var
    progress,         \* the progress bars of TitleTab and ProcessingTab
    results_tree,     \* TitleTab.results_tree: its rows
    btn_calc,         \* TaxTab.btn_calc: its state
    tax_result,       \* TaxTab.tax_result
    title_summary_var, \* ProcessingTab.title_summary_var
    generate_btn      \* ProcessingTab.generate_btn: its state

\* the state of the window (gui/*.py)
gui_vars == <<threads, after_queue, messagebox, shared_data, status_var, progress, results_tree, btn_calc, tax_result, title_summary_var, generate_btn>>

\* the state of the calls of the title-chain service (services/title_chain.py)
service_vars == <<pc, entries, processing_date, instrument_in, text_in, pdf, chain_deeds, document, matrices, result>>

vars == <<service_vars, gui_vars>>

\* the window after construction: TitleTab.__init__, TaxTab.__init__ and
\* ProcessingTab.__init__, no thread started and nothing queued
GuiConstructed ==
    /\ threads = <<>>
    /\ after_queue = <<>>
    /\ messagebox = <<>>
    /\ shared_data = <<>>
    /\ status_var = "Ready"
    /\ progress = [TitleTab |-> "stopped", ProcessingTab |-> "stopped"]
    /\ results_tree = <<>>
    /\ btn_calc = "normal"
    /\ tax_result = <<>>
    /\ title_summary_var = "Not loaded yet."
    /\ generate_btn = "normal"

(***************************************************************************)
(* Bounds of the model.                                                    *)
(***************************************************************************)
MaxEntries == 3       \* longest entries list handed to get_24_month_chain

MaxFragments == 3     \* most fragments an instrument text is put together from

MaxBodyLines == 3     \* most lines of a text after its opening lines

MaxMatrices == 3      \* most table matrices handed to extract_chain_from_tables

MaxEntryLines == 2    \* most lines of one table entry

MaxRawLines == 3      \* most lines of a text handed to preprocess_chain_text

MaxThreads == 2       \* most worker threads started in one run of the window

(***************************************************************************)
(* Generic sequence helpers.                                               *)
(***************************************************************************)
SeqsUpTo(S, n) == UNION {[1..k -> S] : k \in 0..n}

Front(s) == SubSeq(s, 1, Len(s) - 1)

Last(s) == s[Len(s)]

(***************************************************************************)
(* str: a sequence of one-character strings.                               *)
(***************************************************************************)
LowerCase ==
    <<"a","b","c","d","e","f","g","h","i","j","k","l","m",
      "n","o","p","q","r","s","t","u","v","w","x","y","z">>

UpperCase ==
    <<"A","B","C","D","E","F","G","H","I","J","K","L","M",
      "N","O","P","Q","R","S","T","U","V","W","X","Y","Z">>

Whitespace == {" ", "\t", "\n", "\r", "\f"}

\* the upper-case letter of each lower-case letter
ToUpper ==
    [c \in {LowerCase[i] : i \in DOMAIN LowerCase} |->
        UpperCase[CHOOSE i \in DOMAIN LowerCase : LowerCase[i] = c]]

\* str.upper(), one character
UpperChar(c) == IF c \in DOMAIN ToUpper THEN ToUpper[c] ELSE c

\* str.upper()
upper(s) == [i \in DOMAIN s |-> UpperChar(s[i])]

Min(S) == CHOOSE m \in S : \A x \in S : m <= x

Max(S) == CHOOSE m \in S : \A x \in S : m >= x

\* the positions of the characters of s that are no whitespace
NonSpace(s) == {i \in DOMAIN s : s[i] \notin Whitespace}

lstrip(s) ==
    IF NonSpace(s) = {} THEN <<>> ELSE SubSeq(s, Min(NonSpace(s)), Len(s))

rstrip(s) ==
    IF NonSpace(s) = {} THEN <<>> ELSE SubSeq(s, 1, Max(NonSpace(s)))

\* str.strip()
strip(s) == rstrip(lstrip(s))

\* sub in s
Contains(sub, s) ==
    \E i \in 0..(Len(s) - Len(sub)) : SubSeq(s, i + 1, i + Len(sub)) = sub

RECURSIVE Concat(_)
Concat(ss) == IF ss = <<>> THEN <<>> ELSE Head(ss) \o Concat(Tail(ss))

(***************************************************************************)
(* datetime and timedelta (title_chain.py:5).                              *)
(***************************************************************************)
IsLeap(year) == year % 4 = 0 /\ (year % 100 # 0 \/ year % 400 = 0)

DaysInMonth(year, month) ==
    IF month = 2 THEN (IF IsLeap(year) THEN 29 ELSE 28)
    ELSE IF month \in {4, 6, 9, 11} THEN 30 ELSE 31

DaysBeforeYear(year) ==
    LET y == year - 1 IN y * 365 + (y \div 4) - (y \div 100) + (y \div 400)

RECURSIVE DaysBeforeMonth(_, _)
DaysBeforeMonth(year, month) ==
    IF month = 1 THEN 0
    ELSE DaysBeforeMonth(year, month - 1) + DaysInMonth(year, month - 1)

\* datetime(year, month, day) of a valid calendar date: midnight of that day
datetime(year, month, day) ==
    [day |-> DaysBeforeYear(year) + DaysBeforeMonth(year, month) + day,
     tod |-> 0]

\* dt - timedelta(days = n)
minus_days(dt, n) == [day |-> dt.day - n, tod |-> dt.tod]

\* a <= b and a >= b on datetimes
DtLE(a, b) == a.day < b.day \/ (a.day = b.day /\ a.tod <= b.tod)

DtGE(a, b) == DtLE(b, a)

(***************************************************************************)
(* ChainEntry (dataclass).                                                 *)
(***************************************************************************)
ChainEntry(date, date_string, grantor, grantee, instrument, book_page, remark, is_vesting, line) ==
    [date |-> date, date_string |-> date_string, grantor |-> grantor,
     grantee |-> grantee, instrument |-> instrument, book_page |-> book_page,
     remark |-> remark, is_vesting |-> is_vesting, line |-> line]

(***************************************************************************)
(* is_vesting_deed.                                                        *)
(***************************************************************************)
vesting_deed_types ==
    << <<"W","A","R","R","A","N","T","Y"," ","D","E","E","D">>,
       <<"S","P","E","C","I","A","L"," ","W","A","R","R","A","N","T","Y"," ","D","E","E","D">>,
       <<"Q","U","I","T","C","L","A","I","M"," ","D","E","E","D">>,
       <<"D","E","E","D">>,
       <<"G","R","A","N","T"," ","D","E","E","D">>,
       <<"B","A","R","G","A","I","N"," ","A","N","D"," ","S","A","L","E"," ","D","E","E","D">>,
       <<"A","S","S","U","M","P","T","I","O","N"," ","W","A","R","R","A","N","T","Y"," ","D","E","E","D">>,
       <<"C","O","R","R","E","C","T","I","O","N"," ","D","E","E","D">>,
       <<"E","X","E","C","U","T","O","R","'","S"," ","D","E","E","D">>,
       <<"A","D","M","I","N","I","S","T","R","A","T","O","R","'","S"," ","D","E","E","D">>,
       <<"T","R","U","S","T","E","E","'","S"," ","D","E","E","D">>,
       <<"S","H","E","R","I","F","F","'","S"," ","D","E","E","D">>,
       <<"T","A","X"," ","D","E","E","D">>,
       <<"C","O","M","M","I","S","S","I","O","N","E","R","'","S"," ","D","E","E","D">>,
       <<"S","P","E","C","I","A","L"," ","D","E","E","D">>,
       <<"B","E","N","E","F","I","C","I","A","R","Y"," ","D","E","E","D">> >>

non_vesting_types ==
    << <<"D","E","E","D"," ","O","F"," ","T","R","U","S","T">>,
       <<"M","O","R","T","G","A","G","E">>,
       <<"A","S","S","I","G","N","M","E","N","T"," ","O","F"," ","L","E","A","S","E","S">>,
       <<"A","S","S","I","G","N","M","E","N","T"," ","O","F"," ","R","E","N","T","S">>,
       <<"A","S","S","I","G","N","M","E","N","T"," ","O","F"," ","I","N","C","O","M","E">>,
       <<"A","S","S","I","G","N","M","E","N","T"," ","O","F"," ","L","E","A","S","E","S",","," ","R","E","N","T","S"," ","A","N","D"," ","I","N","C","O","M","E">>,
       <<"A","S","S","I","G","N","M","E","N","T"," ","O","F"," ","L","E","A","S","E","S",","," ","R","E","E","N","T","S"," ","A","N","D"," ","I","N","C","O","M","E">>,
       <<"U","C","C"," ","F","I","N","A","N","C","I","N","G"," ","S","T","A","T","E","M","E","N","T">>,
       <<"S","A","T","I","S","F","A","C","T","I","O","N">>,
       <<"R","E","L","E","A","S","E">>,
       <<"S","U","B","O","R","D","I","N","A","T","I","O","N">>,
       <<"M","O","D","I","F","I","C","A","T","I","O","N">>,
       <<"E","X","T","E","N","S","I","O","N">>,
       <<"L","I","S"," ","P","E","N","D","E","N","S">>,
       <<"N","O","T","I","C","E"," ","O","F"," ","D","E","F","A","U","L","T">>,
       <<"A","F","F","I","D","A","V","I","T">>,
       <<"E","A","S","E","M","E","N","T">>,
       <<"R","I","G","H","T"," ","O","F"," ","W","A","Y">> >>

\* for keyword in keywords: if keyword in upper_instrument: return ...
RECURSIVE any_keyword_in(_, _)
any_keyword_in(keywords, upper_instrument) ==
    IF keywords = <<>> THEN FALSE
    ELSE IF Contains(Head(keywords), upper_instrument) THEN TRUE
    ELSE any_keyword_in(Tail(keywords), upper_instrument)

\* mutant: the vesting list is tested before the non-vesting list
is_vesting_deed_vesting_first(instrument) ==
    LET upper_instrument == strip(upper(instrument))
    IN IF any_keyword_in(vesting_deed_types, upper_instrument) THEN TRUE
       ELSE FALSE

is_vesting_deed(instrument) ==
    LET upper_instrument == strip(upper(instrument))
    IN IF any_keyword_in(non_vesting_types, upper_instrument) THEN FALSE
       ELSE IF any_keyword_in(vesting_deed_types, upper_instrument) THEN TRUE
       ELSE FALSE

(***************************************************************************)
(* get_24_month_chain.                                                     *)
(***************************************************************************)
\* the window: timedelta(days=730)
WindowDays == 730

\* mutant: a 12-month window
cutoff_date_365(pd) == minus_days(pd, 365)

\* cutoff_date = processing_date - timedelta(days=730)
cutoff_date(pd) == minus_days(pd, WindowDays)

\* mutant: the is_vesting filter is missing
vesting_filter_all(es) == es

\* [entry for entry in entries if entry.is_vesting]
vesting_filter(es) == SelectSeq(es, LAMBDA e : e.is_vesting)

\* the number of leading elements of a date-descending list that a new
\* element e stays behind in a stable descending sort: those dated >= e
RECURSIVE StaysBehind(_, _)
StaysBehind(sorted, e) ==
    IF sorted # <<>> /\ DtGE(Head(sorted).date, e.date)
    THEN 1 + StaysBehind(Tail(sorted), e)
    ELSE 0

\* list.sort(key=lambda x: x.date, reverse=True): descending by date, and
\* stable (elements with equal keys keep their order, also under reverse)
RECURSIVE sort_by_date_reverse(_)
sort_by_date_reverse(s) ==
    IF s = <<>> THEN <<>>
    ELSE LET sorted == sort_by_date_reverse(Front(s))
             e      == Last(s)
             k      == StaysBehind(sorted, e)
         IN SubSeq(sorted, 1, k) \o <<e>> \o SubSeq(sorted, k + 1, Len(sorted))

\* min(deed.date for deed in result)
earliest_date(res) ==
    CHOOSE d \in {res[i].date : i \in DOMAIN res} :
        \A j \in DOMAIN res : DtLE(d, res[j].date)

\* mutant: the test on the most recent deed is dropped (always taken)
most_recent_within_always(vesting_deeds, cutoff) == TRUE

\* if vesting_deeds[0].date >= cutoff_date
most_recent_within(vesting_deeds, cutoff) ==
    DtGE(vesting_deeds[1].date, cutoff)

\* mutant: the comparison of the break test is turned round
covers_ge(res, cutoff) == DtGE(earliest_date(res), cutoff)

\* if earliest_date <= cutoff_date: break
covers(res, cutoff) == DtLE(earliest_date(res), cutoff)

\* for deed in vesting_deeds[1:]: result.append(deed); break once covered
RECURSIVE work_backwards(_, _, _)
work_backwards(res, rest, cutoff) ==
    IF rest = <<>> THEN res
    ELSE LET appended == Append(res, Head(rest))
         IN IF covers(appended, cutoff) THEN appended
            ELSE work_backwards(appended, Tail(rest), cutoff)

\* mutant: the else branch appends nothing
beyond_window_none(vesting_deeds) == <<>>

\* else: result.append(vesting_deeds[0])
beyond_window(vesting_deeds) == <<vesting_deeds[1]>>

\* mutant: reverse=True is forgotten in the final sort (ascending order)
RECURSIVE sort_result_ascending(_)
sort_result_ascending(res) ==
    IF res = <<>> THEN <<>>
    ELSE LET sorted == sort_result_ascending(Front(res))
             e      == Last(res)
             k      == Cardinality({i \in DOMAIN sorted :
                                       DtLE(sorted[i].date, e.date)})
         IN SubSeq(sorted, 1, k) \o <<e>> \o SubSeq(sorted, k + 1, Len(sorted))

\* result.sort(key=lambda x: x.date, reverse=True)
sort_result(res) == sort_by_date_reverse(res)

\* mutant: the slice [1:] is forgotten, the loop starts at the newest deed
older_deeds_all(vesting_deeds) == vesting_deeds

\* vesting_deeds[1:]
older_deeds(vesting_deeds) == Tail(vesting_deeds)

get_24_month_chain(es, pd) ==
    LET cutoff        == cutoff_date(pd)
        vesting_deeds == sort_by_date_reverse(vesting_filter(es))
    IN IF vesting_deeds = <<>> THEN <<>>
       ELSE LET res == IF most_recent_within(vesting_deeds, cutoff)
                       THEN work_backwards(<<vesting_deeds[1]>>,
                                           older_deeds(vesting_deeds), cutoff)
                       ELSE beyond_window(vesting_deeds)
            IN sort_result(res)

(***************************************************************************)
(* More of str: split, join, find, slices (Python indices, from 0).        *)
(***************************************************************************)
\* the position (from 1) of the first occurrence of character c in s, or 0
IndexOfChar(s, c) ==
    IF \E i \in DOMAIN s : s[i] = c THEN Min({i \in DOMAIN s : s[i] = c}) ELSE 0

\* s.split(c) for a one-character separator c: always at least one piece
RECURSIVE split(_, _)
split(s, c) ==
    LET k == IndexOfChar(s, c)
    IN IF k = 0 THEN <<s>>
       ELSE <<SubSeq(s, 1, k - 1)>> \o split(SubSeq(s, k + 1, Len(s)), c)

\* sep.join(parts)
RECURSIVE join(_, _)
join(sep, parts) ==
    IF parts = <<>> THEN <<>>
    ELSE IF Len(parts) = 1 THEN parts[1]
    ELSE parts[1] \o sep \o join(sep, Tail(parts))

\* s.split(): the maximal runs of non-whitespace characters
RECURSIVE split_whitespace(_)
split_whitespace(s) ==
    LET t == lstrip(s)
        n == IF \E i \in DOMAIN t : t[i] \in Whitespace
             THEN Min({i \in DOMAIN t : t[i] \in Whitespace}) - 1
             ELSE Len(t)
    IN IF t = <<>> THEN <<>>
       ELSE <<SubSeq(t, 1, n)>> \o split_whitespace(SubSeq(t, n + 1, Len(t)))

\* s.find(sub): the lowest index (from 0) where sub occurs in s, or -1
find(s, sub) ==
    IF Contains(sub, s)
    THEN Min({i \in 0..(Len(s) - Len(sub)) : SubSeq(s, i + 1, i + Len(sub)) = sub})
    ELSE -1

\* a slice bound as Python clamps it: negative bounds count from the end
SliceBound(s, b) ==
    IF b < 0 THEN (IF Len(s) + b < 0 THEN 0 ELSE Len(s) + b)
    ELSE IF b > Len(s) THEN Len(s) ELSE b

\* s[start:end]
slice(s, start, end) == SubSeq(s, SliceBound(s, start) + 1, SliceBound(s, end))

\* s[start:]
slice_from(s, start) == SubSeq(s, SliceBound(s, start) + 1, Len(s))

(***************************************************************************)
(* re: a backtracking matcher.  A pattern is a sequence of nodes; a match  *)
(* result is a position (from 1, of the next character) and the captured   *)
(* groups, each <<start, end>> with end exclusive, or <<0, 0>> when the     *)
(* group took no part.  Results come in the order in which backtracking    *)
(* tries them: greedy repeats longest first, lazy repeats shortest first,  *)
(* alternatives left to right.  Literals and [A-Z] compare ignoring case   *)
(* (every pattern with a letter in it is used with re.IGNORECASE).         *)
(***************************************************************************)
Digit == {"0","1","2","3","4","5","6","7","8","9"}

Letter == {LowerCase[i] : i \in DOMAIN LowerCase} \cup {UpperCase[i] : i \in DOMAIN UpperCase}

WordChar == Letter \cup Digit \cup {"_"}

InClass(c, cls) ==
    CASE cls = "\\d"     -> c \in Digit
      [] cls = "\\s"     -> c \in Whitespace
      [] cls = "\\w"     -> c \in WordChar
      [] cls = "[\\w\\s]" -> c \in WordChar \cup Whitespace
      [] cls = "[A-Z]"   -> c \in Letter
      [] cls = "\\*"     -> c = "*"
      [] cls = "."       -> c # "\n"

\* cls{min,max}, greedy or lazy (cls{min,max}?); max = -1: no upper limit
Rep(cls, min, max, greedy) ==
    [t |-> "rep", cls |-> cls, min |-> min, max |-> max, greedy |-> greedy]

Plus(cls) == Rep(cls, 1, -1, TRUE)

Star(cls) == Rep(cls, 0, -1, TRUE)

LazyPlus(cls) == Rep(cls, 1, -1, FALSE)

Lit(chars) == [t |-> "lit", s |-> chars]

\* (?:a|b|...): alts is a sequence of patterns
Alt(alts) == [t |-> "alt", alts |-> alts]

\* (body), capturing group number n
Grp(n, body) == [t |-> "grp", n |-> n, body |-> body]

\* (?:body)?
Opt(body) == [t |-> "opt", body |-> body]

Bol == [t |-> "bol"]

Eol == [t |-> "eol"]

NoGroups == [n \in 1..6 |-> <<0, 0>>]

\* how many characters of class cls follow from position i
RunLen(s, i, cls) ==
    LET others == {j \in i..Len(s) : ~InClass(s[j], cls)}
    IN IF others = {} THEN Len(s) - i + 1 ELSE Min(others) - i

\* the concatenation of seqs[lo], ..., seqs[hi]
RECURSIVE FlatRange(_, _, _)
FlatRange(seqs, lo, hi) ==
    IF lo > hi THEN <<>>
    ELSE IF lo = hi THEN seqs[lo]
    ELSE LET mid == (lo + hi) \div 2
         IN FlatRange(seqs, lo, mid) \o FlatRange(seqs, mid + 1, hi)

Flatten(seqs) == FlatRange(seqs, 1, Len(seqs))

HeadOrEmpty(seqs) == IF seqs = <<>> THEN <<>> ELSE <<seqs[1]>>

RECURSIVE MatchNode(_, _, _, _)
RECURSIVE MatchAll(_, _, _, _)
RECURSIVE MatchEach(_, _, _)
RECURSIVE MatchFirst(_, _, _, _)
RECURSIVE FirstOf(_, _, _)

\* every way one node matches at position i, in backtracking order
MatchNode(node, s, i, caps) ==
    CASE node.t = "rep" ->
           LET run == RunLen(s, i, node.cls)
               r   == IF node.max >= 0 /\ run > node.max THEN node.max ELSE run
           IN IF r < node.min THEN <<>>
              ELSE [k \in 1..(r - node.min + 1) |->
                       [pos  |-> IF node.greedy THEN i + r - (k - 1)
                                 ELSE i + node.min + (k - 1),
                        caps |-> caps]]
      [] node.t = "lit" ->
           IF /\ i + Len(node.s) - 1 <= Len(s)
              /\ \A j \in DOMAIN node.s :
                     UpperChar(s[i + j - 1]) = UpperChar(node.s[j])
           THEN <<[pos |-> i + Len(node.s), caps |-> caps]>>
           ELSE <<>>
      [] node.t = "alt" ->
           Flatten([k \in DOMAIN node.alts |-> MatchAll(node.alts[k], s, i, caps)])
      [] node.t = "grp" ->
           LET rs == MatchAll(node.body, s, i, caps)
           IN [k \in DOMAIN rs |->
                  [pos  |-> rs[k].pos,
                   caps |-> [rs[k].caps EXCEPT ![node.n] = <<i, rs[k].pos>>]]]
      [] node.t = "opt" ->
           Append(MatchAll(node.body, s, i, caps), [pos |-> i, caps |-> caps])
      [] node.t = "bol" ->
           IF i = 1 THEN <<[pos |-> i, caps |-> caps]>> ELSE <<>>
      [] node.t = "eol" ->
           IF i = Len(s) + 1 \/ (i = Len(s) /\ s[i] = "\n")
           THEN <<[pos |-> i, caps |-> caps]>>
           ELSE <<>>

\* every way a pattern matches at position i, in backtracking order
MatchAll(nodes, s, i, caps) ==
    IF nodes = <<>> THEN <<[pos |-> i, caps |-> caps]>>
    ELSE MatchEach(MatchNode(Head(nodes), s, i, caps), Tail(nodes), s)

\* the matches of the rest of a pattern after each result rs of its head
MatchEach(rs, nodes, s) ==
    Flatten([k \in DOMAIN rs |-> MatchAll(nodes, s, rs[k].pos, rs[k].caps)])

\* the first way a pattern matches at position i: <<result>>, or <<>>
MatchFirst(nodes, s, i, caps) ==
    IF nodes = <<>> THEN <<[pos |-> i, caps |-> caps]>>
    ELSE FirstOf(MatchNode(Head(nodes), s, i, caps), Tail(nodes), s)

\* the first result of the head after which the rest of the pattern matches
FirstOf(rs, nodes, s) ==
    HeadOrEmpty(Flatten([k \in DOMAIN rs |->
                            MatchFirst(nodes, s, rs[k].pos, rs[k].caps)]))

\* re.match(pattern, s): the match at the start of s, <<result>> or <<>>
re_match(pattern, s) == MatchFirst(pattern, s, 1, NoGroups)

\* re.search(pattern, s): the match at the leftmost position that has one
re_search(pattern, s) ==
    HeadOrEmpty(Flatten([i \in 1..(Len(s) + 1) |->
                            MatchFirst(pattern, s, i, NoGroups)]))

\* match.group(n), None being <<>> here (a group that took no part)
group(s, m, n) == SubSeq(s, m[1].caps[n][1], m[1].caps[n][2] - 1)

group_is_none(m, n) == m[1].caps[n] = <<0, 0>>

(***************************************************************************)
(* parse_date.                                                             *)
(***************************************************************************)
\* None, and a value that is not None, of an Optional
None == <<>>

Some(x) == <<x>>

DigitChars == <<"0","1","2","3","4","5","6","7","8","9">>

DigitValue(c) == (CHOOSE k \in DOMAIN DigitChars : DigitChars[k] = c) - 1

\* the text int() reads digits from: surrounding whitespace and one sign off
IntBody(s) ==
    LET u == strip(s)
    IN IF u # <<>> /\ u[1] \in {"+", "-"} THEN Tail(u) ELSE u

IntNegative(s) == LET u == strip(s) IN u # <<>> /\ u[1] = "-"

\* int(s) does not raise ValueError: digits, single underscores between them
int_ok(s) ==
    LET b == IntBody(s)
    IN /\ b # <<>>
       /\ \A i \in DOMAIN b : b[i] \in Digit \cup {"_"}
       /\ \A i \in DOMAIN b :
              b[i] = "_" => /\ i > 1 /\ i < Len(b)
                            /\ b[i - 1] \in Digit /\ b[i + 1] \in Digit

RECURSIVE DigitsValue(_)
DigitsValue(b) ==
    IF b = <<>> THEN 0
    ELSE IF Last(b) = "_" THEN DigitsValue(Front(b))
    ELSE DigitsValue(Front(b)) * 10 + DigitValue(Last(b))

\* int(s), for int_ok(s)
int(s) == IF IntNegative(s) THEN 0 - DigitsValue(IntBody(s)) ELSE DigitsValue(IntBody(s))

\* datetime(year, month, day) does not raise ValueError
datetime_ok(year, month, day) ==
    /\ year >= 1 /\ year <= 9999
    /\ month >= 1 /\ month <= 12
    /\ day >= 1 /\ day <= DaysInMonth(year, month)

\* mutant: the calendar check is missing, any day and month make a date
parse_date_unchecked(date_str) ==
    LET parts == split(date_str, "/")
    IN IF /\ Len(parts) = 3
          /\ int_ok(parts[1]) /\ int_ok(parts[2]) /\ int_ok(parts[3])
       THEN Some(datetime(int(parts[3]), int(parts[1]), int(parts[2])))
       ELSE None

parse_date(date_str) ==
    LET parts == split(date_str, "/")
    IN IF /\ Len(parts) = 3
          /\ int_ok(parts[1]) /\ int_ok(parts[2]) /\ int_ok(parts[3])
          /\ datetime_ok(int(parts[3]), int(parts[1]), int(parts[2]))
       THEN Some(datetime(int(parts[3]), int(parts[1]), int(parts[2])))
       ELSE None

(***************************************************************************)
(* preprocess_chain_text.                                                  *)
(***************************************************************************)
\* \d{2}/\d{2}/\d{4}
DatePattern ==
    <<Rep("\\d", 2, 2, TRUE), Lit(<<"/">>), Rep("\\d", 2, 2, TRUE), Lit(<<"/">>),
      Rep("\\d", 4, 4, TRUE)>>

\* re.match(r'^\d{2}/\d{2}/\d{4}', line)
starts_with_date(line) == re_match(<<Bol>> \o DatePattern, line) # <<>>

StopMarkers ==
    { <<"*","*","*","*">>, <<"F","I","L","E","D">>, <<"N","A","M","E"," ","C","E","R","T","I","F","I","C","A","T","I","O","N">>, <<"S","E","L","L","E","R">>, <<"B","U","Y","E","R">>,
      <<"I","n","f","o","r","m","a","t","i","o","n"," ","t","o"," ","f","o","l","l","o","w">> }

\* mutant: only a date line or an empty line ends an entry, no stop marker
stops_entry_no_markers(next_line) ==
    \/ starts_with_date(next_line)
    \/ next_line = <<>>

\* the test that ends the combining of continuation lines
stops_entry(next_line) ==
    \/ starts_with_date(next_line)
    \/ next_line = <<>>
    \/ \E marker \in StopMarkers : Contains(marker, next_line)

\* the inner while loop: <<combined, i>> when it is left
RECURSIVE combine_lines(_, _, _)
combine_lines(lines, combined, i) ==
    IF i >= Len(lines) THEN <<combined, i>>
    ELSE LET next_line == strip(lines[i + 1])
         IN IF stops_entry(next_line) THEN <<combined, i>>
            ELSE combine_lines(lines, combined \o <<" ">> \o next_line, i + 1)

\* the outer while loop, i counting from 0
RECURSIVE preprocess_loop(_, _, _)
preprocess_loop(lines, processed_lines, i) ==
    IF i >= Len(lines) THEN processed_lines
    ELSE LET line == strip(lines[i + 1])
         IN IF starts_with_date(line)
            THEN LET c == combine_lines(lines, line, i + 1)
                 IN preprocess_loop(lines, Append(processed_lines, c[1]), c[2])
            ELSE preprocess_loop(lines, Append(processed_lines, line), i + 1)

preprocess_chain_text(text) ==
    join(<<"\n">>, preprocess_loop(split(text, "\n"), <<>>, 0))

(***************************************************************************)
(* parse_table_entry.                                                      *)
(***************************************************************************)
\* [\w\d]+-[\w\d]+
BookPagePattern == <<Plus("\\w"), Lit(<<"-">>), Plus("\\w")>>

\* the stripped column texts of the lines that are not empty
column_parts(lines, start, end) ==
    LET texts == [k \in DOMAIN lines |-> strip(slice(lines[k], start, end))]
    IN SelectSeq(texts, LAMBDA text : text # <<>>)

is_date_text(text) == text # <<>> /\ re_match(DatePattern, text) # <<>>

is_book_page_text(text) == text # <<>> /\ re_match(BookPagePattern, text) # <<>>

\* date_str: the dated column of the first line where it looks like a date
date_str_of(lines, col_positions) ==
    LET texts == [k \in DOMAIN lines |->
                     strip(slice(lines[k], col_positions.dated, col_positions.recording))]
        found == SelectSeq(texts, is_date_text)
    IN IF col_positions.dated >= 0 /\ found # <<>> THEN found[1] ELSE <<>>

\* book_page: the recording column of the first line where it looks like one
book_page_of(lines, col_positions) ==
    LET texts == [k \in DOMAIN lines |-> strip(slice_from(lines[k], col_positions.recording))]
        found == SelectSeq(texts, is_book_page_text)
    IN IF col_positions.recording >= 0 /\ found # <<>> THEN found[1] ELSE <<>>

\* the fields that the loop over the lines of an entry collects; every key
\* is in col_positions, so col_positions.get(key, len(line)) is the offset of
\* the key as it is, -1 (no such column in the header) included
table_entry_fields(lines, col_positions) ==
    [grantor_parts |->
         IF col_positions.grantor >= 0
         THEN column_parts(lines, col_positions.grantor, col_positions.grantee)
         ELSE <<>>,
     grantee_parts |->
         IF col_positions.grantee >= 0
         THEN column_parts(lines, col_positions.grantee, col_positions.instrument)
         ELSE <<>>,
     instrument_parts |->
         IF col_positions.instrument >= 0
         THEN column_parts(lines, col_positions.instrument, col_positions.dated)
         ELSE <<>>,
     date_str  |-> date_str_of(lines, col_positions),
     book_page |-> book_page_of(lines, col_positions)]

\* mutant: the parser stamps every record of a table as a vesting deed
parse_table_entry_all_vesting(lines, col_positions) ==
    IF lines = <<>> THEN None
    ELSE
    LET f          == table_entry_fields(lines, col_positions)
        grantor    == strip(join(<<" ">>, f.grantor_parts))
        grantee    == strip(join(<<" ">>, f.grantee_parts))
        instrument == strip(join(<<" ">>, f.instrument_parts))
        parsed_date == parse_date(f.date_str)
    IN IF /\ f.date_str # <<>>
          /\ (grantor # <<>> \/ grantee # <<>>)
          /\ f.book_page # <<>>
          /\ parsed_date # None
       THEN Some(ChainEntry(parsed_date[1], f.date_str, grantor, grantee, instrument,
                            f.book_page, <<>>, TRUE, join(<<" ">>, lines)))
       ELSE None

parse_table_entry(lines, col_positions) ==
    IF lines = <<>> THEN None
    ELSE
    LET f          == table_entry_fields(lines, col_positions)
        grantor    == strip(join(<<" ">>, f.grantor_parts))
        grantee    == strip(join(<<" ">>, f.grantee_parts))
        instrument == strip(join(<<" ">>, f.instrument_parts))
        parsed_date == parse_date(f.date_str)
    IN IF /\ f.date_str # <<>>
          /\ (grantor # <<>> \/ grantee # <<>>)
          /\ f.book_page # <<>>
          /\ parsed_date # None
       THEN Some(ChainEntry(parsed_date[1], f.date_str, grantor, grantee, instrument,
                            f.book_page, <<>>, is_vesting_deed(instrument),
                            join(<<" ">>, lines)))
       ELSE None

(***************************************************************************)
(* parse_chain_text_regex_fallback.                                        *)
(***************************************************************************)
skip_patterns ==
    << <<Lit(<<"F","I","L","E","D">>), Star("."), Lit(<<"G","R","A","N","T","O","R">>), Star("."), Lit(<<"G","R","A","N","T","E","E">>),
         Star("."), Lit(<<"I","N","S","T","R","U","M","E","N","T">>)>>,
       <<Bol, Plus("\\*")>>,
       <<Lit(<<"C","H","A","I","N"," ","O","F"," ","T","I","T","L","E">>)>>,
       <<Lit(<<"F","i","l","e"," ","N","o",".">>)>>,
       <<Lit(<<"N","A","M","E"," ","C","E","R","T","I","F","I","C","A","T","I","O","N">>)>>,
       <<Lit(<<"S","E","L","L","E","R">>), Plus("\\s"), Star("."), Plus("\\s"), Lit(<<"B","U","Y","E","R">>)>>,
       <<Lit(<<"O","W","N","E","R",":">>)>>,
       <<Lit(<<"F","o","r"," ","f","u","r","t","h","e","r"," ","i","n","f","o","r","m","a","t","i","o","n">>)>>,
       <<Lit(<<"C","e","r","t","i","f","i","e","d"," ","t","o",":">>)>>,
       <<Lit(<<"N","e","w"," ","C","e","r","t","i","f","i","c","a","t","i","o","n"," ","D","a","t","e",":">>)>>,
       <<Lit(<<"B","y",":">>), Star(".")>>,
       <<Lit(<<"I","N","F","O","R","M","A","T","I","O","N"," ","T","O"," ","F","O","L","L","O","W">>)>>,
       <<Bol, Star("\\s"), Eol>> >>

\* any(re.search(pattern, line, re.IGNORECASE) for pattern in skip_patterns)
is_skipped(line) ==
    \E k \in DOMAIN skip_patterns : re_search(skip_patterns[k], line) # <<>>

\* (?:DEED|TRUST|ASSIGNMENT|...|EASEMENT)
InstrumentWords ==
    Alt(<< <<Lit(<<"D","E","E","D">>)>>, <<Lit(<<"T","R","U","S","T">>)>>, <<Lit(<<"A","S","S","I","G","N","M","E","N","T">>)>>,
           <<Lit(<<"M","O","R","T","G","A","G","E">>)>>, <<Lit(<<"U","C","C">>)>>, <<Lit(<<"S","A","T","I","S","F","A","C","T","I","O","N">>)>>,
           <<Lit(<<"R","E","L","E","A","S","E">>)>>, <<Lit(<<"S","U","B","O","R","D","I","N","A","T","I","O","N">>)>>,
           <<Lit(<<"M","O","D","I","F","I","C","A","T","I","O","N">>)>>, <<Lit(<<"E","X","T","E","N","S","I","O","N">>)>>,
           <<Lit(<<"L","I","S"," ","P","E","N","D","E","N","S">>)>>, <<Lit(<<"N","O","T","I","C","E">>)>>, <<Lit(<<"A","F","F","I","D","A","V","I","T">>)>>,
           <<Lit(<<"E","A","S","E","M","E","N","T">>)>> >>)

\* ^(date)\s+(.+?)\s+(.+?)\s+((?:[\w\s]+(?:DEED|...)[\w\s]*)|(?:P\s+\d+-\d+))
\*   \s+([A-Z]?\s*\d+-\d+|\w+-\w+)(?:\s+(.*))?$
pattern_six_groups ==
    <<Bol, Grp(1, DatePattern), Plus("\\s"),
      Grp(2, <<LazyPlus(".")>>), Plus("\\s"),
      Grp(3, <<LazyPlus(".")>>), Plus("\\s"),
      Grp(4, <<Alt(<< <<Plus("[\\w\\s]"), InstrumentWords, Star("[\\w\\s]")>>,
                      <<Lit(<<"P">>), Plus("\\s"), Plus("\\d"), Lit(<<"-">>),
                        Plus("\\d")>> >>)>>),
      Plus("\\s"),
      Grp(5, <<Alt(<< <<Rep("[A-Z]", 0, 1, TRUE), Star("\\s"), Plus("\\d"),
                        Lit(<<"-">>), Plus("\\d")>>,
                      <<Plus("\\w"), Lit(<<"-">>), Plus("\\w")>> >>)>>),
      Opt(<<Plus("\\s"), Grp(6, <<Star(".")>>)>>),
      Eol>>

\* ^(date)\s+(.+?)\s+(WARRANTY DEED|DEED OF TRUST|QUITCLAIM DEED|
\*   SPECIAL WARRANTY DEED|DEED)\s+(\d+-\d+)(?:\s+(.*))?$
pattern_five_groups ==
    <<Bol, Grp(1, DatePattern), Plus("\\s"),
      Grp(2, <<LazyPlus(".")>>), Plus("\\s"),
      Grp(3, <<Alt(<< <<Lit(<<"W","A","R","R","A","N","T","Y"," ","D","E","E","D">>)>>, <<Lit(<<"D","E","E","D"," ","O","F"," ","T","R","U","S","T">>)>>,
                      <<Lit(<<"Q","U","I","T","C","L","A","I","M"," ","D","E","E","D">>)>>,
                      <<Lit(<<"S","P","E","C","I","A","L"," ","W","A","R","R","A","N","T","Y"," ","D","E","E","D">>)>>, <<Lit(<<"D","E","E","D">>)>> >>)>>),
      Plus("\\s"),
      Grp(4, <<Plus("\\d"), Lit(<<"-">>), Plus("\\d")>>),
      Opt(<<Plus("\\s"), Grp(5, <<Star(".")>>)>>),
      Eol>>

UNKNOWN == <<"U","N","K","N","O","W","N">>

\* the fields of a line matched by one of the patterns: groups 1..6, or
\* groups 1..5 with the combined names split in halves by words
fields_of_match(line, m, six) ==
    IF six
    THEN [date_str |-> group(line, m, 1), grantor |-> group(line, m, 2),
          grantee |-> group(line, m, 3), instrument |-> group(line, m, 4),
          book_page |-> group(line, m, 5), remark |-> group(line, m, 6)]
    ELSE LET combined_names == group(line, m, 2)
             name_parts     == split_whitespace(combined_names)
             mid_point      == Len(name_parts) \div 2
         IN [date_str |-> group(line, m, 1),
             grantor |-> IF Len(name_parts) >= 2
                         THEN join(<<" ">>, SubSeq(name_parts, 1, mid_point))
                         ELSE combined_names,
             grantee |-> IF Len(name_parts) >= 2
                         THEN join(<<" ">>, SubSeq(name_parts, mid_point + 1,
                                                   Len(name_parts)))
                         ELSE UNKNOWN,
             instrument |-> group(line, m, 3), book_page |-> group(line, m, 4),
             remark |-> group(line, m, 5)]

\* the body of the loop for one line: the entry it appends, or None
fallback_entry(raw_line) ==
    LET line == strip(raw_line)
    IN IF is_skipped(line) THEN None
       ELSE LET m6  == re_search(pattern_six_groups, line)
                m   == IF m6 # <<>> THEN m6 ELSE re_search(pattern_five_groups, line)
            IN IF m = <<>> THEN None
               ELSE LET f == fields_of_match(line, m, m6 # <<>>)
                        parsed_date == parse_date(f.date_str)
                    IN IF parsed_date = None THEN None
                       ELSE Some(ChainEntry(parsed_date[1], f.date_str,
                                            strip(f.grantor), strip(f.grantee),
                                            strip(f.instrument), strip(f.book_page),
                                            strip(f.remark),
                                            is_vesting_deed(strip(f.instrument)),
                                            line))

RECURSIVE fallback_loop(_)
fallback_loop(lines) ==
    IF lines = <<>> THEN <<>>
    ELSE fallback_entry(Head(lines)) \o fallback_loop(Tail(lines))

parse_chain_text_regex_fallback(text) ==
    fallback_loop(split(preprocess_chain_text(text), "\n"))

(***************************************************************************)
(* parse_chain_text.                                                       *)
(***************************************************************************)
GRANTOR == <<"G","R","A","N","T","O","R">>

GRANTEE == <<"G","R","A","N","T","E","E">>

INSTRUMENT == <<"I","N","S","T","R","U","M","E","N","T">>

DATED == <<"D","A","T","E","D">>

RECORDING == <<"R","E","C","O","R","D","I","N","G">>

is_header(line) ==
    Contains(GRANTOR, line) /\ Contains(GRANTEE, line) /\ Contains(INSTRUMENT, line)

\* header_idx: the index (from 0) of the first header line, or None
find_header_idx(lines) ==
    IF \E k \in DOMAIN lines : is_header(lines[k])
    THEN Some((CHOOSE k \in DOMAIN lines :
                   /\ is_header(lines[k])
                   /\ \A j \in 1..(k - 1) : ~is_header(lines[j])) - 1)
    ELSE None

\* col_positions, from the header line
col_positions_of(line) ==
    [grantor |-> find(line, GRANTOR), grantee |-> find(line, GRANTEE),
     instrument |-> find(line, INSTRUMENT), dated |-> find(line, DATED),
     recording |-> find(line, RECORDING)]

\* mutant: only a missing header counts (if header_idx is None)
no_header_is_none(header_idx) == header_idx = None

\* if not header_idx or not col_positions: None and 0 are both falsy
no_header(header_idx) == header_idx = None \/ header_idx[1] = 0

is_separator(line) == Contains(<<"-","-","-">>, line) \/ Contains(<<"*","*","*">>, line)

\* entries with the entry of current_entry_lines appended, if it has one
with_entry(entries_so_far, current_entry_lines, col_positions) ==
    IF current_entry_lines # <<>>
    THEN entries_so_far \o parse_table_entry(current_entry_lines, col_positions)
    ELSE entries_so_far

\* for i in range(header_idx + 1, len(lines)), i counting from 0
RECURSIVE table_loop(_, _, _, _, _, _)
table_loop(lines, i, in_table, current_entry_lines, entries_so_far, col_positions) ==
    IF i >= Len(lines) THEN entries_so_far
    ELSE LET line == lines[i + 1]
         IN IF is_separator(line)
            THEN IF ~in_table
                 THEN table_loop(lines, i + 1, TRUE, current_entry_lines,
                                 entries_so_far, col_positions)
                 ELSE with_entry(entries_so_far, current_entry_lines, col_positions)
            ELSE IF ~in_table
            THEN table_loop(lines, i + 1, in_table, current_entry_lines,
                            entries_so_far, col_positions)
            ELSE IF strip(line) = <<>>
            THEN table_loop(lines, i + 1, in_table, <<>>,
                            with_entry(entries_so_far, current_entry_lines,
                                       col_positions),
                            col_positions)
            ELSE table_loop(lines, i + 1, in_table, Append(current_entry_lines, line),
                            entries_so_far, col_positions)

\* the column table parser: the table below the header at header_idx
parse_table(lines, header_idx) ==
    table_loop(lines, header_idx + 1, FALSE, <<>>, <<>>,
               col_positions_of(lines[header_idx + 1]))

\* mutant: the regex fallback also runs when the table has no entry
parse_chain_text_fallback_when_empty(text) ==
    LET lines      == split(text, "\n")
        header_idx == find_header_idx(lines)
    IN IF no_header(header_idx) \/ parse_table(lines, header_idx[1]) = <<>>
       THEN parse_chain_text_regex_fallback(text)
       ELSE parse_table(lines, header_idx[1])

parse_chain_text(text) ==
    LET lines      == split(text, "\n")
        header_idx == find_header_idx(lines)
    IN IF no_header(header_idx)
       THEN parse_chain_text_regex_fallback(text)
       ELSE parse_table(lines, header_idx[1])

(***************************************************************************)
(* Inputs of the selector: deeds around the cutoff of 2025-01-10.          *)
(***************************************************************************)
WARRANTY_DEED == <<"W","A","R","R","A","N","T","Y"," ","D","E","E","D">>

DEED_OF_TRUST == <<"D","E","E","D"," ","O","F"," ","T","R","U","S","T">>

BP1 == <<"1","0","0","-","1">>

BP2 == <<"1","0","0","-","2">>

\* <<year, month, day, date_string>>
SampleDates ==
    { <<2020, 1, 1,  <<"0","1","/","0","1","/","2","0","2","0">> >>,
      <<2021, 3, 1,  <<"0","3","/","0","1","/","2","0","2","1">> >>,
      <<2023, 1, 11, <<"0","1","/","1","1","/","2","0","2","3">> >>,
      <<2023, 6, 1,  <<"0","6","/","0","1","/","2","0","2","3">> >>,
      <<2024, 1, 10, <<"0","1","/","1","0","/","2","0","2","4">> >> }

\* <<instrument, book_page, is_vesting>>; the last kind is an entry built
\* without the flag (the dataclass default is_vesting = False)
SampleKinds ==
    { <<WARRANTY_DEED, BP1, TRUE>>,
      <<WARRANTY_DEED, BP2, TRUE>>,
      <<DEED_OF_TRUST, BP1, FALSE>>,
      <<WARRANTY_DEED, BP1, FALSE>> }

SampleEntries ==
    { ChainEntry(datetime(d[1], d[2], d[3]), d[4], <<"A">>, <<"B">>,
                 k[1], k[2], <<>>, k[3], <<>>) :
        d \in SampleDates, k \in SampleKinds }

\* 2025-01-10 at midnight and at noon (datetime.now() carries a time of day)
ProcessingDates ==
    { datetime(2025, 1, 10),
      [datetime(2025, 1, 10) EXCEPT !.tod = 43200] }

(***************************************************************************)
(* Specification of the selector: one call of get_24_month_chain.          *)
(***************************************************************************)
Init ==
    /\ pc = "call"
    /\ entries \in SeqsUpTo(SampleEntries, MaxEntries)
    /\ processing_date \in ProcessingDates
    /\ instrument_in = <<>>
    /\ text_in = <<>>
    /\ pdf = <<>>
    /\ chain_deeds = <<>>
    /\ document = <<>>
    /\ matrices = <<>>
    /\ result = <<>>
    /\ GuiConstructed

Select ==
    /\ pc = "call"
    /\ result' = get_24_month_chain(entries, processing_date)
    /\ pc' = "return"
    /\ UNCHANGED <<matrices, entries, processing_date, instrument_in, text_in, pdf, chain_deeds, document>>
    /\ UNCHANGED gui_vars

Next == Select

Spec == Init /\ [][Next]_vars

(***************************************************************************)
(* Inputs of the classifier: instrument texts put together from fragments. *)
(***************************************************************************)
Fragments ==
    { <<"D","E","E","D">>,
      <<" ","O","F"," ","T","R","U","S","T">>,
      <<"W","A","R","R","A","N","T","Y"," ">>,
      <<"w","a","r","r","a","n","t","y"," ","d","e","e","d">>,
      <<"A","S","S","I","G","N","M","E","N","T"," ","O","F"," ","L","E","A","S","E","S"," ","A","N","D"," ">>,
      <<"M","o","r","t","g","a","g","e">>,
      <<" ">>,
      <<"R","E">>,
      <<"L","E","A","S","E">>,
      <<"T","R","U","S","T","E","E","'","S"," ">>,
      <<"P","L","A","T">>,
      <<"\t">> }

InstrumentTexts == {Concat(fs) : fs \in SeqsUpTo(Fragments, MaxFragments)}

(***************************************************************************)
(* Specification of the classifier: one call of is_vesting_deed.           *)
(***************************************************************************)
InitClassifier ==
    /\ pc = "call"
    /\ instrument_in \in InstrumentTexts
    /\ text_in = <<>>
    /\ pdf = <<>>
    /\ chain_deeds = <<>>
    /\ document = <<>>
    /\ matrices = <<>>
    /\ entries = <<>>
    /\ processing_date = datetime(2025, 1, 10)
    /\ result = <<>>
    /\ GuiConstructed

Classify ==
    /\ pc = "call"
    /\ result' = is_vesting_deed(instrument_in)
    /\ pc' = "return"
    /\ UNCHANGED <<matrices, entries, processing_date, instrument_in, text_in, pdf, chain_deeds, document>>
    /\ UNCHANGED gui_vars

NextClassifier == Classify

SpecClassifier == InitClassifier /\ [][NextClassifier]_vars

(***************************************************************************)
(* Inputs of text-mode extraction: texts of a few opening lines (a title,  *)
(* a table header, a separator) and body lines (table rows in the columns  *)
(* of the header, a row's continuation line, a line in the format of the   *)
(* regex fallback, a blank line).                                          *)
(***************************************************************************)
TitleLine == <<"C","H","A","I","N"," ","O","F"," ","T","I","T","L","E">>

HeaderLine == <<"F","I","L","E","D"," "," "," "," "," "," ","G","R","A","N","T","O","R"," ","G","R","A","N","T","E","E"," ","I","N","S","T","R","U","M","E","N","T"," ","D","A","T","E","D"," "," "," "," "," "," ","R","E","C","O","R","D","I","N","G">>

SeparatorLine == <<"-","-","-","-","-">>

BlankLine == <<>>

RowLine == <<"0","1","/","0","2","/","2","0","2","0"," ","J","O","H","N","S","O","N"," ","S","I","M","P","S","O","N"," ","G","R","A","N","T"," ","D","E","E","D"," ","0","1","/","0","2","/","2","0","2","0"," ","1","-","2">>

ContinuationLine == <<" "," "," "," "," "," "," "," "," "," "," "," "," "," "," "," "," "," "," ","L","L","C">>

FallbackLine == <<"0","3","/","0","4","/","2","0","2","1"," ","S","M","I","T","H"," ","J","O","N","E","S"," ","W","A","R","R","A","N","T","Y"," ","D","E","E","D"," ","3","-","4">>

OpeningLines ==
    { <<>>, <<TitleLine>>, <<HeaderLine>>, <<TitleLine, HeaderLine>>,
      <<HeaderLine, SeparatorLine>>, <<TitleLine, HeaderLine, SeparatorLine>> }

BodyLines == {BlankLine, RowLine, ContinuationLine, FallbackLine}

\* a date, a run of six spaces, an instrument and a book-page: no names
SpacesLine == <<"0","1","/","0","2","/","2","0","2","0"," "," "," "," "," "," ","D","E","E","D"," ","1","-","2">>

\* records that are not vesting deeds: a line for the regex fallback, a row
TrustLine == <<"0","5","/","0","6","/","2","0","2","2"," ","S","M","I","T","H"," ","B","A","N","K"," ","D","E","E","D"," ","O","F"," ","T","R","U","S","T"," ","5","-","6">>

MortgageRow == <<"0","5","/","0","6","/","2","0","2","2"," ","J","O","H","N","S","O","N"," ","B","A","N","K","E","R","S"," ","M","O","R","T","G","A","G","E"," "," "," ","0","5","/","0","6","/","2","0","2","2"," ","5","-","6">>

\* a table of two entries, a vesting deed and a mortgage
TwoRowTable ==
    <<TitleLine, HeaderLine, SeparatorLine, RowLine, BlankLine, MortgageRow, SeparatorLine>>

\* candidates whose date string is no calendar date: lines for the regex
\* fallback (month 13; 30 February) and table rows (30 February; four parts;
\* a part that is no number)
BadMonthLine == <<"1","3","/","0","4","/","2","0","2","1"," ","S","M","I","T","H"," ","J","O","N","E","S"," ","W","A","R","R","A","N","T","Y"," ","D","E","E","D"," ","7","-","8">>

BadDayLine == <<"0","2","/","3","0","/","2","0","2","1"," ","S","M","I","T","H"," ","J","O","N","E","S"," ","W","A","R","R","A","N","T","Y"," ","D","E","E","D"," ","7","-","8">>

BadDayRow == <<"0","3","/","0","4","/","2","0","2","1"," ","J","O","H","N","S","O","N"," ","S","I","M","P","S","O","N"," ","G","R","A","N","T"," ","D","E","E","D"," ","0","2","/","3","0","/","2","0","2","1"," ","7","-","8">>

FourPartsRow == <<"0","3","/","0","4","/","2","0","2","1"," ","J","O","H","N","S","O","N"," ","S","I","M","P","S","O","N"," ","G","R","A","N","T"," ","D","E","E","D"," ","0","3","/","0","4","/","2","0","2","1","/","7","-","8">>

NotNumberRow == <<"0","3","/","0","4","/","2","0","2","1"," ","J","O","H","N","S","O","N"," ","S","I","M","P","S","O","N"," ","G","R","A","N","T"," ","D","E","E","D"," ","0","3","/","0","4","/","2","0","2","X"," ","7","-","8">>

BadDateLines == { BadMonthLine, BadDayLine }

BadDateRows == { BadDayRow, FourPartsRow, NotNumberRow }

\* a bad candidate between two good ones, and before and after a good one
BadDateTexts ==
    { join(<<"\n">>, ls) :
        ls \in UNION { { <<FallbackLine, bad, TrustLine>>, <<bad, ContinuationLine, TrustLine>>,
                         <<TrustLine, bad>> } : bad \in BadDateLines } }
    \cup
    { join(<<"\n">>, <<TitleLine, HeaderLine, SeparatorLine>> \o ls \o <<SeparatorLine>>) :
        ls \in UNION { { <<RowLine, BlankLine, bad, BlankLine, MortgageRow>>,
                         <<bad, ContinuationLine, BlankLine, MortgageRow>>,
                         <<RowLine, BlankLine, bad>> } : bad \in BadDateRows } }

\* single texts, one for each case that the texts above do not have
SampleTexts ==
    { SpacesLine, TrustLine, join(<<"\n">>, <<FallbackLine, TrustLine>>),
      join(<<"\n">>, TwoRowTable) }
    \cup BadDateTexts

Texts ==
    { join(<<"\n">>, opening \o body) :
        opening \in OpeningLines, body \in SeqsUpTo(BodyLines, MaxBodyLines) }
    \cup SampleTexts

(***************************************************************************)
(* Specification of text-mode extraction: one call of parse_chain_text.    *)
(***************************************************************************)
InitParse ==
    /\ pc = "call"
    /\ text_in \in Texts
    /\ pdf = <<>>
    /\ chain_deeds = <<>>
    /\ document = <<>>
    /\ matrices = <<>>
    /\ instrument_in = <<>>
    /\ entries = <<>>
    /\ processing_date = datetime(2025, 1, 10)
    /\ result = <<>>
    /\ GuiConstructed

Parse ==
    /\ pc = "call"
    /\ result' = parse_chain_text(text_in)
    /\ pc' = "return"
    /\ UNCHANGED <<matrices, entries, processing_date, instrument_in, text_in, pdf, chain_deeds, document>>
    /\ UNCHANGED gui_vars

NextParse == Parse

SpecParse == InitParse /\ [][NextParse]_vars

(***************************************************************************)
(* Specification of the columns of a table entry: the loop of              *)
(* parse_table_entry over the lines of one entry, for the column offsets   *)
(* of a header.  The text is the header line and the lines of the entry.   *)
(***************************************************************************)
HeaderNoRecording == <<"F","I","L","E","D"," "," "," "," "," "," ","G","R","A","N","T","O","R"," ","G","R","A","N","T","E","E"," ","I","N","S","T","R","U","M","E","N","T"," ","D","A","T","E","D">>

HeaderNoDated == <<"F","I","L","E","D"," "," "," "," "," "," ","G","R","A","N","T","O","R"," ","G","R","A","N","T","E","E"," ","I","N","S","T","R","U","M","E","N","T"," ","R","E","C","O","R","D","I","N","G">>

HeaderNoDatedNoRecording == <<"F","I","L","E","D"," "," "," "," "," "," ","G","R","A","N","T","O","R"," ","G","R","A","N","T","E","E"," ","I","N","S","T","R","U","M","E","N","T">>

\* rows that end in the dated column and in the instrument column
RowToDated == <<"0","1","/","0","2","/","2","0","2","0"," ","J","O","H","N","S","O","N"," ","S","I","M","P","S","O","N"," ","G","R","A","N","T"," ","D","E","E","D"," ","0","1","/","0","2","/","2","0","2","0">>

RowToInstrument == <<"0","1","/","0","2","/","2","0","2","0"," ","J","O","H","N","S","O","N"," ","S","I","M","P","S","O","N"," ","G","R","A","N","T"," ","D","E","E","D">>

ColumnHeaders == { HeaderLine, HeaderNoRecording, HeaderNoDated, HeaderNoDatedNoRecording }

ColumnRows == { RowLine, ContinuationLine, MortgageRow, RowToDated, RowToInstrument }

ColumnTexts ==
    { join(<<"\n">>, <<header>> \o rows) :
        header \in ColumnHeaders,
        rows \in SeqsUpTo(ColumnRows, MaxEntryLines) \ { <<>> } }

InitColumns ==
    /\ pc = "call"
    /\ text_in \in ColumnTexts
    /\ pdf = <<>>
    /\ chain_deeds = <<>>
    /\ document = <<>>
    /\ matrices = <<>>
    /\ instrument_in = <<>>
    /\ entries = <<>>
    /\ processing_date = datetime(2025, 1, 10)
    /\ result = <<>>
    /\ GuiConstructed

\* for line in lines: ... of parse_table_entry, with the col_positions that
\* parse_chain_text takes from the header line
CollectColumns ==
    /\ pc = "call"
    /\ LET lines == split(text_in, "\n")
       IN result' = table_entry_fields(Tail(lines), col_positions_of(lines[1]))
    /\ pc' = "return"
    /\ UNCHANGED <<matrices, entries, processing_date, instrument_in, text_in, pdf, chain_deeds, document>>
    /\ UNCHANGED gui_vars

NextColumns == CollectColumns

SpecColumns == InitColumns /\ [][NextColumns]_vars

(***************************************************************************)
(* Specification of the normalizer: one call of preprocess_chain_text.     *)
(***************************************************************************)
DateLineA == <<"0","1","/","0","2","/","2","0","2","0"," ","A">>

\* a date line and a continuation line with spaces around them
DateLineB == <<" "," ","0","3","/","0","4","/","2","0","2","1"," ","B"," ">>

NameLine == <<"L","L","C">>

PaddedNameLine == <<" "," "," ","I","N","C"," "," ">>

SpacesOnlyLine == <<" "," ">>

FiledLine == <<"x"," ","F","I","L","E","D"," ","y">>

\* a line with each of the other stop markers, and one that only looks like
\* a marker (in another case)
MarkerLines ==
    { <<"*","*","*","*","*">>, <<"N","A","M","E"," ","C","E","R","T","I","F","I","C","A","T","I","O","N">>, <<"S","E","L","L","E","R"," ","X">>, <<"T","H","E"," ","B","U","Y","E","R">>,
      <<" ","I","n","f","o","r","m","a","t","i","o","n"," ","t","o"," ","f","o","l","l","o","w"," ">> }

NoMarkerLine == <<"I","N","F","O","R","M","A","T","I","O","N"," ","T","O"," ","F","O","L","L","O","W">>

RawLines == { DateLineA, DateLineB, NameLine, PaddedNameLine, SpacesOnlyLine, FiledLine }

\* an entry of two lines, a stop marker, a line after it, the next entry
MarkerText(marker) == <<DateLineA, NameLine, marker, PaddedNameLine, DateLineB, NameLine>>

RawTexts ==
    { join(<<"\n">>, ls) : ls \in SeqsUpTo(RawLines, MaxRawLines) }
    \cup { join(<<"\n">>, MarkerText(marker)) :
             marker \in MarkerLines \cup { FiledLine, NoMarkerLine, BlankLine } }

InitPreprocess ==
    /\ pc = "call"
    /\ text_in \in RawTexts
    /\ pdf = <<>>
    /\ chain_deeds = <<>>
    /\ document = <<>>
    /\ matrices = <<>>
    /\ instrument_in = <<>>
    /\ entries = <<>>
    /\ processing_date = datetime(2025, 1, 10)
    /\ result = <<>>
    /\ GuiConstructed

Preprocess ==
    /\ pc = "call"
    /\ result' = preprocess_chain_text(text_in)
    /\ pc' = "return"
    /\ UNCHANGED <<matrices, entries, processing_date, instrument_in, text_in, pdf, chain_deeds, document>>
    /\ UNCHANGED gui_vars

NextPreprocess == Preprocess

SpecPreprocess == InitPreprocess /\ [][NextPreprocess]_vars

(***************************************************************************)
(* extract_text_from_pdf.  A PDF is what the two readers make of it: the   *)
(* text PyMuPDF reads (up to the page where it raises, if it does) and the *)
(* text PyPDF2 reads (up to the page where it raises, if it does).         *)
(***************************************************************************)
extract_text_from_pdf(p) ==
    IF ~p.fitz_raises /\ strip(p.fitz_text) # <<>>
    THEN p.fitz_text
    ELSE p.fitz_text \o p.pypdf_text

(***************************************************************************)
(* create_title_document: the data rows of the chain table it saves.       *)
(***************************************************************************)
NoVestingDeedsFound == <<"N","o"," ","v","e","s","t","i","n","g"," ","d","e","e","d","s"," ","f","o","u","n","d">>

deed_row(deed) ==
    <<upper(deed.grantor), upper(deed.grantee), upper(deed.instrument),
      deed.date_string, deed.book_page>>

document_rows(deeds) ==
    IF deeds # <<>>
    THEN [k \in DOMAIN deeds |-> deed_row(deeds[k])]
    ELSE << <<NoVestingDeedsFound>> >>

(***************************************************************************)
(* process_title_pdf, step by step.                                        *)
(***************************************************************************)
CouldNotExtract == "Could not extract text from PDF"

NoEntriesFound == "No chain of title entries found"

FailedToCreate == "Failed to create document"

\* f"Document created successfully!\nFound {len(chain_deeds)} vesting deeds ..."
created_message(deeds) ==
    "Document created successfully!\nFound " \o ToString(Len(deeds))
        \o " vesting deeds in 24-month chain."

BlankPage == <<" ">> \o <<"\n">>

PdfTexts ==
    { <<>>, BlankPage, TitleLine, TrustLine, FallbackLine, join(<<"\n">>, TwoRowTable) }

Pdfs == [fitz_text : PdfTexts, fitz_raises : BOOLEAN, pypdf_text : PdfTexts]

\* datetime.now() at the call of get_24_month_chain
Nows == ProcessingDates \cup { datetime(2022, 6, 1) }

InitProcess ==
    /\ pc = "call"
    /\ pdf \in Pdfs
    /\ text_in = <<>>
    /\ instrument_in = <<>>
    /\ entries = <<>>
    /\ processing_date = datetime(2025, 1, 10)
    /\ chain_deeds = <<>>
    /\ document = None
    /\ matrices = <<>>
    /\ result = <<>>
    /\ GuiConstructed

\* text = extract_text_from_pdf(pdf_path)
ExtractText ==
    /\ pc = "call"
    /\ text_in' = extract_text_from_pdf(pdf)
    /\ pc' = "text"
    /\ UNCHANGED <<matrices, entries, processing_date, instrument_in, pdf, chain_deeds, document, result>>
    /\ UNCHANGED gui_vars

\* if not text.strip(): return False, "Could not extract text from PDF", []
ReturnNoText ==
    /\ pc = "text"
    /\ strip(text_in) = <<>>
    /\ result' = <<FALSE, CouldNotExtract, <<>>>>
    /\ pc' = "return"
    /\ UNCHANGED <<matrices, entries, processing_date, instrument_in, text_in, pdf, chain_deeds, document>>
    /\ UNCHANGED gui_vars

\* entries = parse_chain_text(text)
ParseEntries ==
    /\ pc = "text"
    /\ strip(text_in) # <<>>
    /\ entries' = parse_chain_text(text_in)
    /\ pc' = "entries"
    /\ UNCHANGED <<matrices, processing_date, instrument_in, text_in, pdf, chain_deeds, document, result>>
    /\ UNCHANGED gui_vars

\* if not entries: return False, "No chain of title entries found", []
ReturnNoEntries ==
    /\ pc = "entries"
    /\ entries = <<>>
    /\ result' = <<FALSE, NoEntriesFound, <<>>>>
    /\ pc' = "return"
    /\ UNCHANGED <<matrices, entries, processing_date, instrument_in, text_in, pdf, chain_deeds, document>>
    /\ UNCHANGED gui_vars

\* chain_deeds = get_24_month_chain(entries)
SelectChain ==
    /\ pc = "entries"
    /\ entries # <<>>
    /\ \E now \in Nows :
           /\ processing_date' = now
           /\ chain_deeds' = get_24_month_chain(entries, now)
    /\ pc' = "chain"
    /\ UNCHANGED <<matrices, entries, instrument_in, text_in, pdf, document, result>>
    /\ UNCHANGED gui_vars

\* mutant: an empty chain is reported as a failure and no document is made
CreateDocument_only_with_deeds ==
    /\ pc = "chain"
    /\ \E success \in BOOLEAN :
           /\ document' = IF success /\ chain_deeds # <<>>
                          THEN Some(document_rows(chain_deeds)) ELSE None
           /\ result' = IF chain_deeds = <<>>
                        THEN <<FALSE, NoEntriesFound, <<>>>>
                        ELSE IF success
                        THEN <<TRUE, created_message(chain_deeds), chain_deeds>>
                        ELSE <<FALSE, FailedToCreate, chain_deeds>>
    /\ pc' = "return"
    /\ UNCHANGED <<matrices, entries, processing_date, instrument_in, text_in, pdf, chain_deeds>>
    /\ UNCHANGED gui_vars

\* success = create_title_document(chain_deeds, output_path, template_path)
\* and the two returns after it
CreateDocument ==
    /\ pc = "chain"
    /\ \E success \in BOOLEAN :
           /\ document' = IF success THEN Some(document_rows(chain_deeds)) ELSE None
           /\ result' = IF success
                        THEN <<TRUE, created_message(chain_deeds), chain_deeds>>
                        ELSE <<FALSE, FailedToCreate, chain_deeds>>
    /\ pc' = "return"
    /\ UNCHANGED <<matrices, entries, processing_date, instrument_in, text_in, pdf, chain_deeds>>
    /\ UNCHANGED gui_vars

NextProcess ==
    \/ ExtractText
    \/ ReturnNoText
    \/ ParseEntries
    \/ ReturnNoEntries
    \/ SelectChain
    \/ CreateDocument

SpecProcess == InitProcess /\ [][NextProcess]_vars

(***************************************************************************)
(* Matrix mode: the cell-matrix table parser and extract_chain_from_tables.*)
(* A matrix is a sequence of rows, a row a sequence of cells, a cell a     *)
(* text; the first row is the header.  An empty cell and a None cell are   *)
(* both the empty text.                                                    *)
(***************************************************************************)
\* a cell in upper case, each newline a space, trimmed
normalize_header_cell(cell) ==
    strip([i \in DOMAIN cell |-> IF cell[i] = "\n" THEN " " ELSE UpperChar(cell[i])])

\* a data cell as text: each newline a space, trimmed
cell_text(cell) ==
    strip([i \in DOMAIN cell |-> IF cell[i] = "\n" THEN " " ELSE cell[i]])

DateColumnNames == <<<<"D","A","T","E","D">>, <<"D","A","T","E">>, <<"F","I","L","E","D">>>>

RecordingColumnNames == <<<<"R","E","C","O","R","D","I","N","G">>, <<"B","O","O","K","-","P","A","G","E">>, <<"B","O","O","K","_","P","A","G","E">>, <<"B","O","O","K","/","P","A","G","E">>, <<"B","K","/","P","G">>>>

\* the index of the column with the first of the names that a header cell
\* has, or 0 when the header has none of them
RECURSIVE lookup_column(_, _)
lookup_column(header, names) ==
    IF names = <<>> THEN 0
    ELSE IF \E c \in DOMAIN header : normalize_header_cell(header[c]) = Head(names)
    THEN Min({c \in DOMAIN header : normalize_header_cell(header[c]) = Head(names)})
    ELSE lookup_column(header, Tail(names))

\* the five required columns of a header
resolve_columns(header) ==
    [date       |-> lookup_column(header, DateColumnNames),
     recording  |-> lookup_column(header, RecordingColumnNames),
     grantor    |-> lookup_column(header, <<GRANTOR>>),
     grantee    |-> lookup_column(header, <<GRANTEE>>),
     instrument |-> lookup_column(header, <<INSTRUMENT>>)]

all_resolved(cols) ==
    /\ cols.date > 0 /\ cols.recording > 0
    /\ cols.grantor > 0 /\ cols.grantee > 0 /\ cols.instrument > 0

\* the record of a data row: None for a row of another cell count than the
\* header, without a date, a recording reference or a party, or with a date
\* string that does not parse
parse_matrix_row(row, header, cols) ==
    IF Len(row) # Len(header) THEN None
    ELSE
    LET date_str    == cell_text(row[cols.date])
        book_page   == cell_text(row[cols.recording])
        grantor     == cell_text(row[cols.grantor])
        grantee     == cell_text(row[cols.grantee])
        instrument  == cell_text(row[cols.instrument])
        parsed_date == parse_date(date_str)
    IN IF /\ date_str # <<>>
          /\ book_page # <<>>
          /\ (grantor # <<>> \/ grantee # <<>>)
          /\ parsed_date # None
       THEN Some(ChainEntry(parsed_date[1], date_str, grantor, grantee, instrument,
                            book_page, <<>>, is_vesting_deed(instrument),
                            join(<<" ">>, row)))
       ELSE None

\* the records of one matrix: none when a required column is unresolved
parse_matrix(matrix) ==
    IF matrix = <<>> THEN <<>>
    ELSE LET header == matrix[1]
             cols   == resolve_columns(header)
         IN IF ~all_resolved(cols) THEN <<>>
            ELSE Flatten([r \in 1..(Len(matrix) - 1) |->
                             parse_matrix_row(matrix[r + 1], header, cols)])

\* mutant: a matrix that is no chain table ends the extraction
RECURSIVE extract_chain_from_tables_abort(_)
extract_chain_from_tables_abort(tableMatrices) ==
    IF tableMatrices = <<>> THEN <<>>
    ELSE IF Head(tableMatrices) = <<>> \/ ~all_resolved(resolve_columns(Head(tableMatrices)[1]))
    THEN <<>>
    ELSE parse_matrix(Head(tableMatrices)) \o extract_chain_from_tables_abort(Tail(tableMatrices))

RECURSIVE extract_chain_from_tables(_)
extract_chain_from_tables(tableMatrices) ==
    IF tableMatrices = <<>> THEN <<>>
    ELSE parse_matrix(Head(tableMatrices)) \o extract_chain_from_tables(Tail(tableMatrices))

\* a chain table of one deed
DeedMatrix ==
    << <<<<"G","R","A","N","T","O","R">>, <<"G","R","A","N","T","E","E">>, <<"I","N","S","T","R","U","M","E","N","T">>, <<"D","A","T","E","D">>, <<"R","E","C","O","R","D","I","N","G">>>>,
       <<<<"S","M","I","T","H">>, <<"J","O","N","E","S">>, <<"W","A","R","R","A","N","T","Y"," ","D","E","E","D">>, <<"0","3","/","0","4","/","2","0","2","1">>, <<"3","-","4">>>> >>

\* a chain table with other column names, in lower case and on two lines:
\* a deed of trust, a row of four cells, a row with 30 February
TrustMatrix ==
    << <<<<"F","i","l","e","d">>, <<"g","r","a","n","t","o","r">>, <<"g","r","a","n","t","e","e">>, <<"i","n","s","t","r","u","m","e","n","t">>, <<"b","k","/","p","g","\n">>>>,
       <<<<"0","5","/","0","6","/","2","0","2","2">>, <<"S","M","I","T","H">>, <<"F","I","R","S","T","\n","B","A","N","K">>, <<"D","E","E","D"," ","O","F"," ","T","R","U","S","T">>, <<"5","-","6">>>>,
       <<<<"0","5","/","0","7","/","2","0","2","2">>, <<"S","M","I","T","H">>, <<"J","O","N","E","S">>, <<"D","E","E","D">>>>,
       <<<<"0","2","/","3","0","/","2","0","2","1">>, <<"S","M","I","T","H">>, <<"J","O","N","E","S">>, <<"D","E","E","D">>, <<"7","-","8">>>> >>

\* a table that is no chain table
ParcelMatrix ==
    << <<<<"P","A","R","C","E","L">>, <<"O","W","N","E","R">>, <<"D","A","T","E","D">>>>,
       <<<<"1","2","-","3","4">>, <<"S","M","I","T","H">>, <<"0","1","/","0","2","/","2","0","2","0">>>> >>

\* a chain table without a recording column
NoRecordingMatrix ==
    << <<<<"G","R","A","N","T","O","R">>, <<"G","R","A","N","T","E","E">>, <<"I","N","S","T","R","U","M","E","N","T">>, <<"D","A","T","E","D">>, <<"R","E","M","A","R","K">>>>,
       <<<<"S","M","I","T","H">>, <<"J","O","N","E","S">>, <<"W","A","R","R","A","N","T","Y"," ","D","E","E","D">>, <<"0","1","/","0","2","/","2","0","2","0">>, <<"1","-","2">>>> >>

Matrices == { <<>>, DeedMatrix, TrustMatrix, ParcelMatrix, NoRecordingMatrix }

InitTables ==
    /\ pc = "call"
    /\ matrices \in SeqsUpTo(Matrices, MaxMatrices)
    /\ text_in = <<>>
    /\ pdf = <<>>
    /\ chain_deeds = <<>>
    /\ document = <<>>
    /\ instrument_in = <<>>
    /\ entries = <<>>
    /\ processing_date = datetime(2025, 1, 10)
    /\ result = <<>>
    /\ GuiConstructed

ExtractTables ==
    /\ pc = "call"
    /\ result' = extract_chain_from_tables(matrices)
    /\ pc' = "return"
    /\ UNCHANGED <<entries, processing_date, instrument_in, text_in, pdf, chain_deeds, document, matrices>>
    /\ UNCHANGED gui_vars

NextTables == ExtractTables

SpecTables == InitTables /\ [][NextTables]_vars

(***************************************************************************)
(* Properties of get_24_month_chain (checked under Spec).                  *)
(***************************************************************************)
Returned == pc = "return"

\* processing date minus 730 days, as the claims state it
ClaimCutoff == minus_days(processing_date, 730)

Count(s, x) == Cardinality({i \in DOMAIN s : s[i] = x})

VestingIdx == {i \in DOMAIN entries : entries[i].is_vesting}

\* the overall newest vesting record: the first, in input order, of the
\* vesting records with the latest date
NewestVestingIdx ==
    CHOOSE i \in VestingIdx :
        /\ \A j \in VestingIdx : DtLE(entries[j].date, entries[i].date)
        /\ \A j \in VestingIdx : j < i => entries[j].date # entries[i].date

ReachesCutoff(s) == \E i \in DOMAIN s : DtLE(s[i].date, ClaimCutoff)

RECURSIVE IsSubSeq(_, _)
IsSubSeq(a, b) ==
    IF a = <<>> THEN TRUE
    ELSE IF b = <<>> THEN FALSE
    ELSE IF Head(a) = Head(b) THEN IsSubSeq(Tail(a), Tail(b))
    ELSE IsSubSeq(a, Tail(b))

\* C1: the result reaches the cutoff (its earliest date is on or before the
\* processing date minus 730 days), or is the singleton of the overall
\* newest vesting record, or contains all vesting records of the input.
C1_ReachesCutoffOrNewestOrAll ==
    Returned =>
        \/ ReachesCutoff(result)
        \/ (VestingIdx # {} /\ result = <<entries[NewestVestingIdx]>>)
        \/ \A i \in VestingIdx :
               Count(result, entries[i]) >= Count(entries, entries[i])

\* the loop has stopped on reaching the cutoff, leaving older deeds out
C1_Witness ==
    /\ Returned
    /\ Len(result) = 2
    /\ ReachesCutoff(result)
    /\ Cardinality(VestingIdx) = 3

\* C2 (scenario A): exactly three vesting deeds dated 2024-01-10, 2023-06-01
\* and 2021-03-01, processing date 2025-01-10, whose cutoff is 2023-01-11:
\* the result is the two records dated 2024-01-10 and 2023-06-01, in order.
ScenarioA ==
    /\ Len(entries) = 3
    /\ \A i \in DOMAIN entries : entries[i].is_vesting
    /\ \E f \in [1..3 -> {datetime(2024, 1, 10), datetime(2023, 6, 1),
                          datetime(2021, 3, 1)}] :
           /\ \A i, j \in 1..3 : i # j => f[i] # f[j]
           /\ \A i \in 1..3 : entries[i].date = f[i]
    /\ processing_date = datetime(2025, 1, 10)

C2_ScenarioA_TwoRecords ==
    (Returned /\ ScenarioA) =>
        /\ cutoff_date(processing_date) = datetime(2023, 1, 11)
        /\ Len(result) = 2
        /\ result[1].date = datetime(2024, 1, 10)
        /\ result[2].date = datetime(2023, 6, 1)

\* C2 as amended: 2023-06-01 is after the cutoff 2023-01-11, so the loop
\* goes on to the third deed: the result is the three records, dated
\* 2024-01-10, 2023-06-01 and 2021-03-01 in that order.
C2_ScenarioA_ThreeRecords ==
    (Returned /\ ScenarioA) =>
        /\ cutoff_date(processing_date) = datetime(2023, 1, 11)
        /\ Len(result) = 3
        /\ result[1].date = datetime(2024, 1, 10)
        /\ result[2].date = datetime(2023, 6, 1)
        /\ result[3].date = datetime(2021, 3, 1)

C2_Witness ==
    /\ Returned
    /\ ScenarioA
    /\ entries[1].date = datetime(2021, 3, 1)
    /\ Len(result) = 3

\* C3: the result is minimal: when it holds two or more records, the
\* records left after removing its oldest one are all dated strictly after
\* the cutoff, also when the newest vesting deed is dated on the cutoff.
C3_Minimal ==
    (Returned /\ Len(result) >= 2) =>
        \A i \in 1..(Len(result) - 1) : ~DtLE(result[i].date, ClaimCutoff)

\* C4: get_24_month_chain is idempotent: applied to its own result with the
\* same processing date it returns that result, same records in same order.
C4_Idempotent ==
    Returned => get_24_month_chain(result, processing_date) = result

C4_Witness ==
    /\ Returned
    /\ Len(result) = 2
    /\ Len(entries) = 3
    /\ result # entries
    /\ get_24_month_chain(result, processing_date) = result

\* C5: when the newest vesting record is dated strictly before the cutoff,
\* the result is exactly that one record; no older vesting record is in it.
NewestBeforeCutoff ==
    /\ VestingIdx # {}
    /\ ~DtGE(entries[NewestVestingIdx].date, ClaimCutoff)

C5_NewestBeforeCutoffAlone ==
    (Returned /\ NewestBeforeCutoff) => result = <<entries[NewestVestingIdx]>>

C5_Witness ==
    /\ Returned
    /\ NewestBeforeCutoff
    /\ Cardinality(VestingIdx) >= 2
    /\ \E i \in VestingIdx : entries[i].date # entries[NewestVestingIdx].date
    /\ Len(result) = 1

\* C6: every returned record is a record of the input whose is_vesting is
\* true, and occurs in the result no more often than in the input; a record
\* whose is_vesting is false is never returned.
C6_OnlyVestingInputRecords ==
    Returned =>
        \A i \in DOMAIN result :
            /\ result[i].is_vesting
            /\ Count(result, result[i]) >= 1
            /\ Count(result, result[i]) <= Count(entries, result[i])

C6_Witness ==
    /\ Returned
    /\ Len(result) >= 1
    /\ \E i \in DOMAIN entries :
           /\ ~entries[i].is_vesting
           /\ entries[i].instrument = WARRANTY_DEED
           /\ DtGE(entries[i].date, ClaimCutoff)
    /\ \E i, j \in DOMAIN entries : i # j /\ entries[i] = entries[j]

\* C7: the result is the empty sequence exactly when the input holds no
\* record whose is_vesting is true (a normal return, not an exception).
C7_EmptyIffNoVesting ==
    Returned => (result = <<>> <=> VestingIdx = {})

C7_Witness ==
    /\ Returned
    /\ result = <<>>
    /\ Len(entries) >= 2

\* C8: the result is ordered by date, newest first, and records with equal
\* dates keep the relative order they had in the input.
SameDate(s, d) == SelectSeq(s, LAMBDA e : e.date = d)

C8_NewestFirstStable ==
    Returned =>
        /\ \A i, j \in DOMAIN result :
               i < j => DtGE(result[i].date, result[j].date)
        /\ \A k \in DOMAIN result :
               IsSubSeq(SameDate(result, result[k].date),
                        SameDate(entries, result[k].date))

C8_Witness ==
    /\ Returned
    /\ Len(result) = 3
    /\ result[1] # result[2]
    /\ result[1].date = result[2].date
    /\ result[3].date # result[2].date
    /\ entries[1] = result[3]

Fragments_BothLists ==
    <<"A","S","S","I","G","N","M","E","N","T"," ","O","F"," ","L","E","A","S","E","S"," ","A","N","D"," ","D","E","E","D"," ","O","F"," ","T","R","U","S","T">>

(***************************************************************************)
(* Properties of is_vesting_deed (checked under SpecClassifier).           *)
(***************************************************************************)
Range(s) == {s[i] : i \in DOMAIN s}

HasKeywordOf(keywords, s) == \E k \in Range(keywords) : Contains(k, s)

\* C9: is_vesting_deed returns a boolean for every instrument text, and it
\* returns true exactly when the upper-cased, trimmed text contains a keyword
\* of the vesting list and no keyword of the non-vesting list; a text with
\* keywords of both lists, or of neither, is non-vesting.
C9_VestingIffVestingKeywordOnly ==
    Returned =>
        /\ result \in BOOLEAN
        /\ result = (/\ HasKeywordOf(vesting_deed_types, strip(upper(instrument_in)))
                     /\ ~HasKeywordOf(non_vesting_types, strip(upper(instrument_in))))

\* 'ASSIGNMENT OF LEASES AND DEED OF TRUST': keywords of both lists
C9_Witness ==
    /\ Returned
    /\ instrument_in = Fragments_BothLists
    /\ HasKeywordOf(vesting_deed_types, instrument_in)
    /\ HasKeywordOf(non_vesting_types, instrument_in)
    /\ result = FALSE

(***************************************************************************)
(* Properties of parse_chain_text (checked under SpecParse).               *)
(***************************************************************************)
TextLines == split(text_in, "\n")

HasAllTokens(line) ==
    Contains(GRANTOR, line) /\ Contains(GRANTEE, line) /\ Contains(INSTRUMENT, line)

NoHeaderLine == \A k \in DOMAIN TextLines : ~HasAllTokens(TextLines[k])

\* the first line with the three tokens, counted from 1
FirstHeaderLine ==
    CHOOSE k \in DOMAIN TextLines :
        /\ HasAllTokens(TextLines[k])
        /\ \A j \in 1..(k - 1) : ~HasAllTokens(TextLines[j])

HeaderAfterFirstLine == ~NoHeaderLine /\ FirstHeaderLine > 1

\* the records of the column table parser on the lines after the header
TableRecords == parse_table(TextLines, FirstHeaderLine - 1)

FallbackRecords == parse_chain_text_regex_fallback(text_in)

TableYieldsNothing == NoHeaderLine \/ TableRecords = <<>>

\* C10, as stated: whenever the column table parser yields no records, also
\* when a header line is found and the table has no valid record, the regex
\* fallback parser runs on the normalized text and its records are returned.
C10_FallbackWheneverTableEmpty ==
    (Returned /\ TableYieldsNothing) => result = FallbackRecords

\* C10, amended: the records of the regex fallback parser on the normalized
\* text are returned when no line has the three header tokens; when the first
\* header line is after the first line of the text, the records of the column
\* table parser are returned, also when there are none.
C10_FallbackWithoutHeader ==
    Returned => /\ NoHeaderLine => result = FallbackRecords
                /\ HeaderAfterFirstLine => result = TableRecords

\* a header on the second line, a table without records, a line the regex
\* fallback parser would have made a record of: nothing is returned
C10_Witness ==
    /\ Returned
    /\ HeaderAfterFirstLine
    /\ TableRecords = <<>>
    /\ FallbackRecords # <<>>
    /\ result = <<>>

\* C11: parse_chain_text returns the records of the regex fallback parser
\* exactly when no line of the text has the three header tokens; whenever a
\* line has them, the first line of the text included, the lines after it are
\* read by the column table parser and its records are returned.
C11_TableWheneverHeader ==
    Returned => /\ NoHeaderLine => result = FallbackRecords
                /\ ~NoHeaderLine => result = TableRecords

\* a record with every required field: a date string, the date it parses to,
\* a book-page, and a grantor or a grantee
FullyPopulated(e) ==
    /\ e.date_string # <<>>
    /\ parse_date(e.date_string) = Some(e.date)
    /\ e.book_page # <<>>
    /\ (e.grantor # <<>> \/ e.grantee # <<>>)

\* C12: every record of the column table parser and of the regex fallback
\* parser has a non-empty date string, the date that parse_date makes of it,
\* a non-empty book-page and a non-empty grantor or grantee; a candidate
\* without one of these gives no record.
C12_RecordsFullyPopulated ==
    Returned => \A k \in DOMAIN result : FullyPopulated(result[k])

\* C13: the is_vesting flag of every record of text-mode extraction is what
\* the classifier says of the record's instrument, whatever its date, its
\* parties, its book-page and its place in the text are.
C13_FlagFromClassifier ==
    Returned => \A k \in DOMAIN result :
                    result[k].is_vesting = is_vesting_deed(result[k].instrument)

\* a table of a vesting deed and a mortgage: two records, flags TRUE and FALSE
C13_Witness ==
    /\ Returned
    /\ text_in = join(<<"\n">>, TwoRowTable)
    /\ Len(result) = 2
    /\ result[1].is_vesting /\ ~result[2].is_vesting

\* the lines of s that are not line x
Without(s, x) == SelectSeq(s, LAMBDA line : line # x)

\* scenario C: a header line of the columns FILED GRANTOR GRANTEE INSTRUMENT
\* DATED RECORDING (after nothing but a title), the separator line that
\* starts the table, and one row on two lines, the second with only the rest
\* of the grantee's name in the grantee column
ScenarioC ==
    \E h \in DOMAIN TextLines :
        /\ TextLines[h] = HeaderLine
        /\ \A j \in 1..(h - 1) : TextLines[j] = TitleLine
        /\ h < Len(TextLines) /\ TextLines[h + 1] = SeparatorLine
        /\ Without(SubSeq(TextLines, h + 2, Len(TextLines)), BlankLine)
               = <<RowLine, ContinuationLine>>

\* the column [start, end) of every line, stripped, the empty ones left out,
\* joined by single spaces
JoinedSlices(lines, start, end) ==
    join(<<" ">>, Without([k \in DOMAIN lines |->
                              strip(SubSeq(lines[k], start + 1, Min({end, Len(lines[k])})))],
                          <<>>))

\* C14: scenario C gives exactly one record; its grantor, grantee and
\* instrument are the column slices of the two lines joined by a single space,
\* so the grantee is the first line's fragment, a space, and the second's.
C14_ScenarioC_OneMergedRecord ==
    (Returned /\ ScenarioC) =>
        /\ Len(result) = 1
        /\ result[1].grantor = JoinedSlices(<<RowLine, ContinuationLine>>, 11, 19)
        /\ result[1].grantee = JoinedSlices(<<RowLine, ContinuationLine>>, 19, 27)
        /\ result[1].instrument = JoinedSlices(<<RowLine, ContinuationLine>>, 27, 38)
        /\ result[1].grantee = <<"S","I","M","P","S","O","N"," ","L","L","C">>

(***************************************************************************)
(* Properties of process_title_pdf (checked under SpecProcess).            *)
(***************************************************************************)
NoVesting(es) == \A k \in DOMAIN es : ~es[k].is_vesting

\* C15: process_title_pdf tells three outcomes apart by what it returns:
\* no text extracted is a failure that says that no text could be extracted;
\* text without a chain entry is a failure with another message, that no
\* entries were found; entries without a vesting deed are no failure, the
\* empty chain goes on to the creation of the document.  In the two failures
\* no document is created.
C15_ThreeOutcomes ==
    /\ (pc = "return" /\ strip(text_in) = <<>>)
           => result = <<FALSE, CouldNotExtract, <<>>>> /\ document = None
    /\ (pc = "return" /\ strip(text_in) # <<>> /\ parse_chain_text(text_in) = <<>>)
           => result = <<FALSE, NoEntriesFound, <<>>>> /\ document = None
    /\ CouldNotExtract # NoEntriesFound
    /\ (pc \in {"chain", "return"} /\ entries # <<>> /\ NoVesting(entries))
           => /\ chain_deeds = <<>>
              /\ pc = "return" =>
                     /\ result[2] \notin {CouldNotExtract, NoEntriesFound}
                     /\ result[3] = <<>>
                     /\ result[1] = (document # None)
                     /\ document # None => document = Some(document_rows(<<>>))

\* a deed of trust alone: the document with the row 'No vesting deeds found'
\* is created, and success is returned with no deed
C15_Witness ==
    /\ pc = "return"
    /\ text_in = TrustLine
    /\ entries # <<>> /\ NoVesting(entries)
    /\ result = <<TRUE, created_message(<<>>), <<>>>>
    /\ document = Some(<< <<NoVestingDeedsFound>> >>)

\* line k of ls belongs to a candidate with a bad date: it is such a line or
\* row, or a continuation line of one
RECURSIVE InBadCandidate(_, _)
InBadCandidate(ls, k) ==
    \/ ls[k] \in BadDateLines \cup BadDateRows
    \/ ls[k] = ContinuationLine /\ k > 1 /\ InBadCandidate(ls, k - 1)

HasBadCandidate == \E k \in DOMAIN TextLines : InBadCandidate(TextLines, k)

\* the text without the lines of its candidates with a bad date
WithoutBadCandidates ==
    LET keep == SelectSeq([k \in DOMAIN TextLines |-> k],
                          LAMBDA k : ~InBadCandidate(TextLines, k))
    IN join(<<"\n">>, [i \in DOMAIN keep |-> TextLines[keep[i]]])

HeaderNames(matrix) == {normalize_header_cell(matrix[1][c]) : c \in DOMAIN matrix[1]}

\* the header of the matrix resolves the five required columns
ResolvesAll(matrix) ==
    /\ matrix # <<>>
    /\ {GRANTOR, GRANTEE, INSTRUMENT} \subseteq HeaderNames(matrix)
    /\ HeaderNames(matrix) \cap Range(DateColumnNames) # {}
    /\ HeaderNames(matrix) \cap Range(RecordingColumnNames) # {}

\* C17: matrix-mode extraction skips, without an error, every matrix whose
\* header does not resolve a date-like column, a recording-like column,
\* GRANTOR, GRANTEE and INSTRUMENT, and returns the records of all the other
\* matrices, one matrix after the other in the order of the input.
C17_UnresolvedMatricesSkipped ==
    Returned => result = Flatten([k \in DOMAIN matrices |->
                                     IF ResolvesAll(matrices[k])
                                     THEN parse_matrix(matrices[k])
                                     ELSE <<>>])

\* a table that is no chain table between two chain tables: the deed of the
\* first and the deed of trust of the third
C17_Witness ==
    /\ Returned
    /\ matrices = <<DeedMatrix, ParcelMatrix, TrustMatrix>>
    /\ ~ResolvesAll(ParcelMatrix)
    /\ Len(result) = 2
    /\ result[1].book_page = <<"3","-","4">> /\ result[1].is_vesting
    /\ result[2].book_page = <<"5","-","6">> /\ ~result[2].is_vesting
    /\ result[2].grantee = <<"F","I","R","S","T"," ","B","A","N","K">>

(***************************************************************************)
(* Properties of the columns of a table entry (checked under SpecColumns). *)
(***************************************************************************)
ColumnOrder == <<GRANTOR, GRANTEE, INSTRUMENT, DATED, RECORDING>>

\* the offset (from 0) of column i in the header line, -1 without it
HeaderOffset(i) == find(TextLines[1], ColumnOrder[i])

\* where column i ends on a line: at the offset of the next column that the
\* header has, or at the end of the line when it has no later column
ClaimedEnd(i, line) ==
    LET later == {j \in (i + 1)..Len(ColumnOrder) : HeaderOffset(j) >= 0}
    IN IF later = {} THEN Len(line) ELSE Min({Len(line), HeaderOffset(Min(later))})

\* the text of column i on every line of the entry, trimmed, the empty ones
\* left out; nothing for a column that the header does not have
ClaimedParts(i) ==
    IF HeaderOffset(i) < 0 THEN <<>>
    ELSE Without([k \in 1..(Len(TextLines) - 1) |->
                     strip(SubSeq(TextLines[k + 1], HeaderOffset(i) + 1,
                                  ClaimedEnd(i, TextLines[k + 1])))],
                 <<>>)

FirstOrEmpty(parts) == IF parts = <<>> THEN <<>> ELSE parts[1]

\* C18: the text of a column on a line is the slice from the header offset of
\* the column to the header offset of the next column that the header has, or
\* to the end of the line when it has no later column; without DATED or
\* RECORDING in the header the instrument (the date) goes to the end of the
\* line and loses no character.
C18_ColumnToNextDefinedOrEol ==
    Returned =>
        /\ result.grantor_parts = ClaimedParts(1)
        /\ result.grantee_parts = ClaimedParts(2)
        /\ result.instrument_parts = ClaimedParts(3)
        /\ result.date_str = FirstOrEmpty(SelectSeq(ClaimedParts(4), is_date_text))
        /\ result.book_page = FirstOrEmpty(SelectSeq(ClaimedParts(5), is_book_page_text))

(***************************************************************************)
(* Properties of preprocess_chain_text (checked under SpecPreprocess).     *)
(* Lines are taken trimmed, as the function takes them; an empty line is a *)
(* line that is empty when trimmed.                                        *)
(***************************************************************************)
Trimmed == [k \in DOMAIN TextLines |-> strip(TextLines[k])]

DatePrefixed(line) ==
    /\ Len(line) >= 10
    /\ \A i \in {1, 2, 4, 5, 7, 8, 9, 10} : line[i] \in Digit
    /\ line[3] = "/" /\ line[6] = "/"

ClaimedStopMarkers ==
    { <<"*","*","*","*">>, <<"F","I","L","E","D">>,
      <<"N","A","M","E"," ","C","E","R","T","I","F","I","C","A","T","I","O","N">>,
      <<"S","E","L","L","E","R">>, <<"B","U","Y","E","R">>,
      <<"I","n","f","o","r","m","a","t","i","o","n"," ","t","o"," ","f","o","l","l","o","w">> }

HasStopMarker(line) == \E marker \in ClaimedStopMarkers : Contains(marker, line)

\* line k can follow in an entry: not empty, no date in front, no stop marker
Continues(k) ==
    /\ Trimmed[k] # <<>>
    /\ ~DatePrefixed(Trimmed[k])
    /\ ~HasStopMarker(Trimmed[k])

\* the last line of the maximal run of such lines right after line k
RunEnd(k) ==
    Max({e \in k..Len(Trimmed) : \A j \in (k + 1)..e : Continues(j)})

\* line j is in the run after a date-prefixed line
Absorbed(j) ==
    \E k \in 1..(j - 1) : DatePrefixed(Trimmed[k]) /\ j <= RunEnd(k)

\* the lines that stand at the start of an output line, in order
OutputStarts ==
    SelectSeq([k \in DOMAIN Trimmed |-> k], LAMBDA k : ~Absorbed(k))

\* the output line that starts with line k
ClaimedOutputLine(k) ==
    IF DatePrefixed(Trimmed[k])
    THEN join(<<" ">>, SubSeq(Trimmed, k, RunEnd(k)))
    ELSE Trimmed[k]

\* C19: preprocess_chain_text makes one output line of every date-prefixed
\* line: the line and the maximal run of lines right after it that are not
\* empty, not date-prefixed and without a stop marker, joined in order by
\* single spaces; a line with a stop marker and the lines after it up to the
\* next date-prefixed line are output lines of their own, part of no entry.
C19_EntryAbsorbsMaximalRun ==
    Returned =>
        /\ split(result, "\n") = [i \in DOMAIN OutputStarts |-> ClaimedOutputLine(OutputStarts[i])]
        /\ \A k \in DOMAIN Trimmed :
               HasStopMarker(Trimmed[k]) /\ ~DatePrefixed(Trimmed[k]) =>
                   \A j \in k..Len(Trimmed) :
                       (\A m \in k..j : ~DatePrefixed(Trimmed[m])) => ~Absorbed(j)

\* an entry of two lines, a line with FILED, a name after it, the next entry
C19_Witness ==
    /\ Returned
    /\ TextLines = MarkerText(FiledLine)
    /\ split(result, "\n") = <<<<"0","1","/","0","2","/","2","0","2","0"," ","A"," ","L","L","C">>, FiledLine, <<"I","N","C">>, <<"0","3","/","0","4","/","2","0","2","1"," ","B"," ","L","L","C">>>>

(***************************************************************************)
(* Properties of the column table parser (checked under SpecParse, for the *)
(* texts whose header line is after the first line).                       *)
(***************************************************************************)
IsSeparatorLine(line) ==
    Contains(<<"-","-","-">>, line) \/ Contains(<<"*","*","*">>, line)

SeparatorsAfter(k) == {j \in (k + 1)..Len(TextLines) : IsSeparatorLine(TextLines[j])}

\* the separator line that starts the table, 0 when there is none
TableStart ==
    IF SeparatorsAfter(FirstHeaderLine) = {} THEN 0
    ELSE Min(SeparatorsAfter(FirstHeaderLine))

\* the line after the last line of the table: the second separator line, or
\* the end of the text
TableEnd ==
    IF SeparatorsAfter(TableStart) = {} THEN Len(TextLines) + 1
    ELSE Min(SeparatorsAfter(TableStart))

InTable(k) == TableStart > 0 /\ TableStart < k /\ k < TableEnd

NonBlankInTable(k) == InTable(k) /\ strip(TextLines[k]) # <<>>

\* the first lines of the maximal runs of non-blank lines of the table
RunStarts ==
    SelectSeq([k \in DOMAIN TextLines |-> k],
              LAMBDA k : NonBlankInTable(k) /\ ~NonBlankInTable(k - 1))

\* the run that starts at line a
RunFrom(a) ==
    SubSeq(TextLines, a, Max({b \in a..Len(TextLines) : \A j \in a..b : NonBlankInTable(j)}))

\* C20: every maximal run of non-blank lines between the separator that
\* starts the table and the end of the table goes to row assembly once, be it
\* ended by a blank line, by a second separator or by the end of the text:
\* the records are those of the runs, in order.
C20_EveryRunAssembled ==
    (Returned /\ HeaderAfterFirstLine) =>
        result = Flatten([i \in DOMAIN RunStarts |->
                             parse_table_entry(RunFrom(RunStarts[i]),
                                               col_positions_of(TextLines[FirstHeaderLine]))])

(***************************************************************************)
(* The window (gui/*.py).  The handlers of the widgets and the callbacks   *)
(* handed to after(0, ...) run one at a time on the thread of the event    *)
(* loop (app.py:40); a worker thread runs its target statement by          *)
(* statement, interleaved with the event loop and with the other workers.  *)
(* after(0, fn) appends fn to the callbacks of the event loop, which runs  *)
(* them in the order of their arrival.  A message box is modal: while one  *)
(* is open the event loop goes on running callbacks, and clicks and keys   *)
(* do not reach the widgets of the window.                                 *)
(***************************************************************************)
Callback(fn, arg) == [fn |-> fn, arg |-> arg]

\* after(0, fn)
after(cb) == after_queue' = Append(after_queue, cb)

\* shared_data.set_data(key, value) and shared_data.get_data(key)
set_data(data, key, value) ==
    [k \in DOMAIN data \cup {key} |-> IF k = key THEN value ELSE data[k]]

get_data(data, key) == IF key \in DOMAIN data THEN data[key] ELSE None

\* the number of threads that have ended
Ended == Cardinality({t \in DOMAIN threads : threads[t].ended > 0})

\* threading.Thread(target = ..., daemon = True).start(): a thread at the
\* first statement of its target; ended is 0 while it runs, and then its
\* place in the order in which the threads ended
Thread(target, first, locals) ==
    [target |-> target, pc |-> first, ended |-> 0, locals |-> locals]

\* thread t goes from statement at to statement next; "done" ends it
goto(t, next) ==
    [threads EXCEPT ![t].pc = next,
                    ![t].ended = IF next = "done" THEN Ended + 1 ELSE 0]

\* a statement self.after(0, fn) of thread t
ui(t, at, cb, next) ==
    /\ threads[t].pc = at
    /\ after(cb)
    /\ threads' = goto(t, next)

\* the user can reach the widgets of the window
Reachable == messagebox = <<>>

\* messagebox.showinfo / showerror
MessageBox(kind, message) == [kind |-> kind, message |-> message]

\* the user closes the message box on top
Dismiss ==
    /\ messagebox # <<>>
    /\ messagebox' = Front(messagebox)
    /\ UNCHANGED <<threads, after_queue, shared_data, status_var, progress, results_tree, btn_calc, tax_result, title_summary_var, generate_btn>>
    /\ UNCHANGED service_vars

\* the state of the service calls while the window is modelled
ServiceIdle ==
    /\ pc = "call"
    /\ entries = <<>>
    /\ processing_date = datetime(2025, 1, 10)
    /\ instrument_in = <<>>
    /\ text_in = <<>>
    /\ pdf = <<>>
    /\ chain_deeds = <<>>
    /\ document = <<>>
    /\ matrices = <<>>
    /\ result = <<>>

(***************************************************************************)
(* TitleTab (gui/title_tab.py).                                            *)
(***************************************************************************)
\* a deed as process_title_pdf returns it
TitleDeed ==
    ChainEntry(datetime(2024, 1, 10), <<"0","1","/","1","0","/","2","0","2","4">>, <<"A">>, <<"B">>,
               WARRANTY_DEED, BP1, <<>>, TRUE, <<>>)

\* what process_title_pdf returns: a chain of no deed, a chain of one deed,
\* or a failure
process_title_pdf_results ==
    { <<TRUE, created_message(<<>>), <<>>>>,
      <<TRUE, created_message(<<TitleDeed>>), <<TitleDeed>>>>,
      <<FALSE, NoEntriesFound, <<>>>> }

\* display_results: the rows the tree holds after it
display_results(deeds) ==
    IF deeds = <<>>
    THEN << <<<<>>, NoVestingDeedsFound, <<>>, <<>>, <<>>>> >>
    ELSE [k \in DOMAIN deeds |->
             <<deeds[k].date_string, deeds[k].grantor, deeds[k].grantee,
               deeds[k].instrument, deeds[k].book_page>>]

\* process_document: a click on "Process Title Document" with the two paths
\* valid or not
process_document ==
    /\ Reachable
    /\ Len(threads) < MaxThreads
    /\ \E pdf_exists \in BOOLEAN, out_given \in BOOLEAN :
           IF ~pdf_exists
           THEN /\ messagebox' = Append(messagebox, MessageBox("showerror", "Please select a valid PDF file."))
                /\ UNCHANGED threads
           ELSE IF ~out_given
           THEN /\ messagebox' = Append(messagebox, MessageBox("showerror", "Please specify an output location."))
                /\ UNCHANGED threads
           ELSE /\ threads' = Append(threads, Thread("_do_process", "l172", [success |-> FALSE, msg |-> "", deeds |-> <<>>]))
                /\ UNCHANGED messagebox
    /\ UNCHANGED <<after_queue, shared_data, status_var, progress, results_tree, btn_calc, tax_result, title_summary_var, generate_btn>>
    /\ UNCHANGED service_vars

\* a statement of _do_process that hands a callback to the event loop
do_process_ui(t, at, cb, next) ==
    /\ ui(t, at, cb, next)
    /\ UNCHANGED <<messagebox, shared_data, status_var, progress, results_tree, btn_calc, tax_result, title_summary_var, generate_btn>>
    /\ UNCHANGED service_vars

\* self._ui(lambda: self.status_var.set("Processing PDF..."))
do_process_status ==
    \E t \in DOMAIN threads :
        do_process_ui(t, "l172", Callback("status_var.set", "Processing PDF..."), "l173")

\* self._ui(self.progress.start)
do_process_start ==
    \E t \in DOMAIN threads :
        do_process_ui(t, "l173", Callback("progress.start", "TitleTab"), "l174")

\* self._ui(lambda: self.results_tree.delete(*self.results_tree.get_children()))
do_process_delete ==
    \E t \in DOMAIN threads :
        do_process_ui(t, "l174", Callback("results_tree.delete", <<>>), "l176")

\* success, msg, deeds = process_title_pdf(pdf, out, self.template_path)
do_process_call ==
    \E t \in DOMAIN threads :
        /\ threads[t].pc = "l176"
        /\ \E r \in process_title_pdf_results :
               threads' = [threads EXCEPT ![t].pc = "l178",
                                          ![t].locals = [success |-> r[1], msg |-> r[2], deeds |-> r[3]]]
        /\ UNCHANGED <<after_queue, messagebox, shared_data, status_var, progress, results_tree, btn_calc, tax_result, title_summary_var, generate_btn>>
        /\ UNCHANGED service_vars

\* self._ui(self.progress.stop)
do_process_stop ==
    \E t \in DOMAIN threads :
        do_process_ui(t, "l178", Callback("progress.stop", "TitleTab"), "l179")

\* self._ui(lambda: self.status_var.set(msg))
do_process_msg ==
    \E t \in DOMAIN threads :
        do_process_ui(t, "l179", Callback("status_var.set", threads[t].locals.msg), "l180")

\* if success: self.shared_data.set_data("title_chain_results", deeds)
do_process_set_data ==
    \E t \in DOMAIN threads :
        /\ threads[t].pc = "l180"
        /\ threads[t].locals.success
        /\ shared_data' = set_data(shared_data, "title_chain_results", threads[t].locals.deeds)
        /\ threads' = goto(t, "l182")
        /\ UNCHANGED <<after_queue, messagebox, status_var, progress, results_tree, btn_calc, tax_result, title_summary_var, generate_btn>>
        /\ UNCHANGED service_vars

\* self._ui(lambda: self.display_results(deeds))
do_process_display ==
    \E t \in DOMAIN threads :
        do_process_ui(t, "l182", Callback("display_results", threads[t].locals.deeds), "l183")

\* self._ui(lambda: messagebox.showinfo("Success", msg)), the last statement
do_process_showinfo ==
    \E t \in DOMAIN threads :
        do_process_ui(t, "l183", Callback("showinfo", threads[t].locals.msg), "done")

\* else: self._ui(lambda: messagebox.showerror("Error", msg)), the last statement
do_process_showerror ==
    \E t \in DOMAIN threads :
        /\ ~threads[t].locals.success
        /\ do_process_ui(t, "l180", Callback("showerror", threads[t].locals.msg), "done")

(***************************************************************************)
(* str and int as TaxTab uses them.                                        *)
(***************************************************************************)
\* str.isdigit(), for ASCII text
isdigit(s) == s # <<>> /\ \A i \in DOMAIN s : s[i] \in Digit

\* str(n), n >= 0
RECURSIVE str(_)
str(n) == IF n < 10 THEN <<DigitChars[n + 1]>> ELSE str(n \div 10) \o <<DigitChars[(n % 10) + 1]>>

\* s.replace(old, new), old not empty
RECURSIVE replace(_, _, _)
replace(s, old, new) ==
    IF Len(s) < Len(old) THEN s
    ELSE IF SubSeq(s, 1, Len(old)) = old
    THEN new \o replace(SubSeq(s, Len(old) + 1, Len(s)), old, new)
    ELSE <<Head(s)>> \o replace(Tail(s), old, new)

\* round(n * 0.75): the quarters of 3n, a half going to the even neighbour
round_three_quarters(n) ==
    LET q == (3 * n) \div 4
        r == (3 * n) % 4
    IN  IF r = 0 \/ r = 1 THEN q
        ELSE IF r = 3 THEN q + 1
        ELSE IF q % 2 = 0 THEN q ELSE q + 1

(***************************************************************************)
(* TaxTab (gui/tax_tab.py).                                                *)
(***************************************************************************)
TOTAL == <<"T","O","T","A","L",":"," ","$">>

TotalNotFound == <<"T","o","t","a","l"," ","n","o","t"," ","f","o","u","n","d",".">>

LookupFailed == <<"L","o","o","k","u","p"," ","f","a","i","l","e","d",":"," ">>

\* the character U+2026 (horizontal ellipsis)
Ellipsis == "..."

\* f"Calculating on ${assessed_val} " and the ellipsis
calculating_on(assessed_val) == <<"C","a","l","c","u","l","a","t","i","n","g"," ","o","n"," ","$">> \o assessed_val \o <<" ", Ellipsis>>

\* what the user has typed into the value entry
ValueTexts == { <<"1","0","0">>, <<" ","1",",","0","0","0"," ">>, <<"2">>, <<"6">>, <<"a","b","c">>, <<>> }

\* the districts of the combo box
Districts == { "district 1", "district 2" }

\* what fetch_total does: a total, no total, or an exception with its text
fetch_total_outcomes ==
    { [raises |-> FALSE, value |-> <<"1",",","2","3","4",".","5","6">>],
      [raises |-> FALSE, value |-> <<>>],
      [raises |-> TRUE, value |-> <<"t","i","m","e","d"," ","o","u","t">>] }

\* calculate_tax, whatever calls it
calculate_tax ==
    /\ Len(threads) < MaxThreads
    /\ \E value \in ValueTexts, district \in Districts :
           LET raw == strip(replace(value, <<",">>, <<>>))
               assessed_val == str(round_three_quarters(int(raw)))
           IN  IF ~isdigit(raw)
               THEN /\ messagebox' = Append(messagebox, MessageBox("showerror", "Enter a numeric appraised value."))
                    /\ UNCHANGED <<threads, btn_calc, tax_result>>
               ELSE /\ btn_calc' = "disabled"
                    /\ tax_result' = calculating_on(assessed_val)
                    /\ threads' = Append(threads, Thread("_thread", "l69", [val |-> assessed_val, district |-> district, msg |-> <<>>]))
                    /\ UNCHANGED messagebox
    /\ UNCHANGED <<after_queue, shared_data, status_var, progress, results_tree, title_summary_var, generate_btn>>
    /\ UNCHANGED service_vars

\* a click on the Calculate button (command = self.calculate_tax): a
\* disabled button does not call its command
calculate_tax_click ==
    /\ Reachable
    /\ btn_calc = "normal"
    /\ calculate_tax

\* Return in the value entry or in the district combo (the two bindings of
\* "<Return>"), whatever the state of the button
calculate_tax_return ==
    /\ Reachable
    /\ calculate_tax

\* _thread: total = fetch_total(val, district) and the message made of it
thread_fetch_total ==
    \E t \in DOMAIN threads :
        /\ threads[t].pc = "l69"
        /\ \E o \in fetch_total_outcomes :
               threads' = [threads EXCEPT ![t].pc = "l73",
                              ![t].locals.msg =
                                  IF o.raises THEN LookupFailed \o o.value
                                  ELSE IF o.value # <<>> THEN TOTAL \o o.value
                                  ELSE TotalNotFound]
        /\ UNCHANGED <<after_queue, messagebox, shared_data, status_var, progress, results_tree, btn_calc, tax_result, title_summary_var, generate_btn>>
        /\ UNCHANGED service_vars

\* _thread: self.after(0, self._done, msg), the last statement
thread_after_done ==
    \E t \in DOMAIN threads :
        /\ ui(t, "l73", Callback("_done", threads[t].locals.msg), "done")
        /\ UNCHANGED <<messagebox, shared_data, status_var, progress, results_tree, btn_calc, tax_result, title_summary_var, generate_btn>>
        /\ UNCHANGED service_vars

\* ProcessingTab.load_from_tabs: the summary of the title chain it shows
\* (its other fields copy parcel and tax entries of shared_data that no
\* modelled tab writes)
title_summary(data) ==
    LET results == get_data(data, "title_chain_results")
    IN  IF results # <<>>
        THEN ToString(Len(results)) \o " vesting deeds found."
        ELSE "No title chain data found."

\* _done: shared_data after it
done_shared_data(msg) ==
    IF Contains(TOTAL, msg)
    THEN set_data(shared_data, "tax_2025_estimated", replace(msg, TOTAL, <<>>))
    ELSE shared_data

(***************************************************************************)
(* ProcessingTab (gui/processing_tab.py).                                  *)
(***************************************************************************)
TemplateNotFound == "Template file 'td_tmplt2.docx' not found."

DocumentGenerated == "Document successfully generated at:\n"

UnexpectedError == "An unexpected error occurred: "

\* what _create_full_document does: it saves the document and returns
\* success, it returns a failure (no template), or it raises (Document(...)
\* or doc.save(...) does)
create_full_document_outcomes == { "success", "failure", "raises" }

\* generate_document: a click on "Generate Document" (a disabled button does
\* not call its command), with an output path given or not
generate_document ==
    /\ Reachable
    /\ generate_btn = "normal"
    /\ Len(threads) < MaxThreads
    /\ \E path_given \in BOOLEAN :
           IF ~path_given
           THEN /\ messagebox' = Append(messagebox, MessageBox("showerror", "Please specify an output path."))
                /\ UNCHANGED <<threads, generate_btn, progress>>
           ELSE /\ generate_btn' = "disabled"
                /\ progress' = [progress EXCEPT !.ProcessingTab = "running"]
                /\ threads' = Append(threads, Thread("_generate_document_thread", "l143", [outcome |-> "none"]))
                /\ UNCHANGED messagebox
    /\ UNCHANGED <<after_queue, shared_data, status_var, results_tree, btn_calc, tax_result, title_summary_var>>
    /\ UNCHANGED service_vars

\* success, msg = self._create_full_document(output_path); the chain table
\* of the saved document has the rows of create_title_document
generate_thread_create ==
    \E t \in DOMAIN threads :
        /\ threads[t].pc = "l143"
        /\ \E o \in create_full_document_outcomes :
               /\ threads' = [threads EXCEPT ![t].pc = "l144", ![t].locals.outcome = o]
               /\ document' = IF o = "success"
                              THEN Some(document_rows(get_data(shared_data, "title_chain_results")))
                              ELSE document
        /\ UNCHANGED <<after_queue, messagebox, shared_data, status_var, progress, results_tree, btn_calc, tax_result, title_summary_var, generate_btn>>
        /\ UNCHANGED <<pc, entries, processing_date, instrument_in, text_in, pdf, chain_deeds, matrices, result>>

\* a statement of _generate_document_thread that hands a callback to the
\* event loop
generate_thread_ui(t, at, cb, next) ==
    /\ ui(t, at, cb, next)
    /\ UNCHANGED <<messagebox, shared_data, status_var, progress, results_tree, btn_calc, tax_result, title_summary_var, generate_btn>>
    /\ UNCHANGED service_vars

\* if success: self.after(0, lambda: messagebox.showinfo("Success", msg))
generate_thread_showinfo ==
    \E t \in DOMAIN threads :
        /\ threads[t].locals.outcome = "success"
        /\ generate_thread_ui(t, "l144", Callback("showinfo", DocumentGenerated), "l151")

\* else: self.after(0, lambda: messagebox.showerror("Error", msg))
generate_thread_showerror ==
    \E t \in DOMAIN threads :
        /\ threads[t].locals.outcome = "failure"
        /\ generate_thread_ui(t, "l144", Callback("showerror", TemplateNotFound), "l151")

\* except Exception as e: self.after(0, lambda: messagebox.showerror("Error",
\* f"An unexpected error occurred: {e}")); the lambda reads e of thread t
\* when it runs
generate_thread_except ==
    \E t \in DOMAIN threads :
        /\ threads[t].locals.outcome = "raises"
        /\ generate_thread_ui(t, "l144", Callback("showerror(e)", t), "l149")

\* the end of the except block, where Python unbinds e
generate_thread_unbind_e ==
    \E t \in DOMAIN threads :
        /\ threads[t].pc = "l149"
        /\ threads' = goto(t, "l151")
        /\ UNCHANGED <<after_queue, messagebox, shared_data, status_var, progress, results_tree, btn_calc, tax_result, title_summary_var, generate_btn>>
        /\ UNCHANGED service_vars

\* finally: self.after(0, self.progress.stop)
generate_thread_stop ==
    \E t \in DOMAIN threads :
        generate_thread_ui(t, "l151", Callback("progress.stop", "ProcessingTab"), "l152")

\* mutant: the button is enabled again at the end of the try block, not in
\* the finally block
generate_thread_enable_unless_raised ==
    \E t \in DOMAIN threads :
        IF threads[t].locals.outcome = "raises"
        THEN /\ threads[t].pc = "l152"
             /\ threads' = goto(t, "done")
             /\ UNCHANGED <<after_queue, messagebox, shared_data, status_var, progress, results_tree, btn_calc, tax_result, title_summary_var, generate_btn>>
             /\ UNCHANGED service_vars
        ELSE generate_thread_ui(t, "l152", Callback("generate_btn.config", "normal"), "done")

\* finally: self.after(0, lambda: self.generate_btn.config(state="normal")),
\* the last statement
generate_thread_enable ==
    \E t \in DOMAIN threads :
        generate_thread_ui(t, "l152", Callback("generate_btn.config", "normal"), "done")

(***************************************************************************)
(* The event loop runs the callback that has waited longest.  A callback   *)
(* that raises changes nothing: Tk reports the exception and the loop goes *)
(* on.  That is what the lambda queued by the except block of              *)
(* _generate_document_thread does when it runs after the thread has left   *)
(* the block (NameError: e is unbound by then).                            *)
(***************************************************************************)
RunCallback ==
    /\ after_queue # <<>>
    /\ LET cb == Head(after_queue)
       IN  /\ after_queue' = Tail(after_queue)
           /\ status_var' = IF cb.fn = "status_var.set" THEN cb.arg ELSE status_var
           /\ progress' = IF cb.fn = "progress.start" THEN [progress EXCEPT ![cb.arg] = "running"]
                          ELSE IF cb.fn = "progress.stop" THEN [progress EXCEPT ![cb.arg] = "stopped"]
                          ELSE progress
           /\ results_tree' = IF cb.fn = "results_tree.delete" THEN <<>>
                              ELSE IF cb.fn = "display_results" THEN display_results(cb.arg)
                              ELSE results_tree
           /\ messagebox' = IF cb.fn \in {"showinfo", "showerror"}
                            THEN Append(messagebox, MessageBox(cb.fn, cb.arg))
                            ELSE IF cb.fn = "showerror(e)" /\ threads[cb.arg].pc = "l149"
                            THEN Append(messagebox, MessageBox("showerror", UnexpectedError))
                            ELSE messagebox
           /\ tax_result' = IF cb.fn = "_done" THEN cb.arg ELSE tax_result
           /\ btn_calc' = IF cb.fn = "_done" THEN "normal" ELSE btn_calc
           /\ shared_data' = IF cb.fn = "_done" THEN done_shared_data(cb.arg) ELSE shared_data
           /\ title_summary_var' = IF cb.fn = "_done" /\ Contains(TOTAL, cb.arg)
                                   THEN title_summary(done_shared_data(cb.arg))
                                   ELSE title_summary_var
           /\ generate_btn' = IF cb.fn = "generate_btn.config" THEN cb.arg ELSE generate_btn
    /\ UNCHANGED threads
    /\ UNCHANGED service_vars

(***************************************************************************)
(* Specification of TitleTab: clicks on "Process Title Document", the      *)
(* workers they start, the event loop.                                     *)
(***************************************************************************)
InitGui ==
    /\ ServiceIdle
    /\ GuiConstructed

NextTitleTab ==
    \/ process_document
    \/ do_process_status
    \/ do_process_start
    \/ do_process_delete
    \/ do_process_call
    \/ do_process_stop
    \/ do_process_msg
    \/ do_process_set_data
    \/ do_process_display
    \/ do_process_showinfo
    \/ do_process_showerror
    \/ RunCallback
    \/ Dismiss

SpecTitleTab == InitGui /\ [][NextTitleTab]_vars

(***************************************************************************)
(* Specification of TaxTab.                                                *)
(***************************************************************************)
NextTaxTab ==
    \/ calculate_tax_click
    \/ calculate_tax_return
    \/ thread_fetch_total
    \/ thread_after_done
    \/ RunCallback
    \/ Dismiss

SpecTaxTab == InitGui /\ [][NextTaxTab]_vars

(***************************************************************************)
(* Specification of ProcessingTab.  The event loop goes on running         *)
(* callbacks as long as there are any, and a started thread goes on to the *)
(* end of its target.                                                      *)
(***************************************************************************)
generate_thread_step ==
    \/ generate_thread_create
    \/ generate_thread_showinfo
    \/ generate_thread_showerror
    \/ generate_thread_except
    \/ generate_thread_unbind_e
    \/ generate_thread_stop
    \/ generate_thread_enable

NextProcessingTab ==
    \/ generate_document
    \/ generate_thread_step
    \/ RunCallback
    \/ Dismiss

SpecProcessingTab ==
    /\ InitGui
    /\ [][NextProcessingTab]_vars
    /\ WF_vars(generate_thread_step)
    /\ WF_vars(RunCallback)

(***************************************************************************)
(* Properties of TitleTab (checked under SpecTitleTab).                    *)
(***************************************************************************)
\* no worker is running and every queued callback has run
Quiescent ==
    /\ threads # <<>>
    /\ \A t \in DOMAIN threads : threads[t].pc = "done"
    /\ after_queue = <<>>

\* the thread that ended last
LastEnded == CHOOSE t \in DOMAIN threads : threads[t].ended = Ended

\* C21: once no worker of TitleTab is running and all queued callbacks have
\* run, if the run that ended last succeeded then the results tree shows
\* exactly the deeds stored under shared_data "title_chain_results".
C21_TreeShowsStoredDeeds ==
    (Quiescent /\ threads[LastEnded].locals.success) =>
        results_tree = display_results(get_data(shared_data, "title_chain_results"))

(***************************************************************************)
(* Properties of TaxTab (checked under SpecTaxTab).                        *)
(***************************************************************************)
\* the lookups in flight: the workers that run, and those that have ended
\* and whose _done callback waits in the event loop
InFlight ==
    Cardinality({t \in DOMAIN threads : threads[t].pc # "done"})
        + Cardinality({i \in DOMAIN after_queue : after_queue[i].fn = "_done"})

\* C22: at most one tax lookup worker is in flight at any time, and from the
\* calculate_tax call that starts it until its _done callback has run the
\* Calculate button is disabled (so that no click and no Return key starts
\* a second worker).
C22_OneLookupInFlight ==
    /\ InFlight <= 1
    /\ InFlight = 1 => btn_calc = "disabled"

(***************************************************************************)
(* Properties of ProcessingTab (checked under SpecProcessingTab).          *)
(***************************************************************************)
\* the generation workers that have not ended
Generating == {t \in DOMAIN threads : threads[t].pc # "done"}

\* C23: every generate_document call that disables the Generate button and
\* starts a worker is eventually followed by the button being enabled again
\* and the progress bar being stopped by the event loop, whether document
\* creation succeeds, reports a failure or raises; and while the button is
\* disabled no second generation worker is started.
C23_ButtonEnabledAgain ==
    /\ (generate_btn = "disabled") ~> (generate_btn = "normal" /\ progress.ProcessingTab = "stopped")
    /\ [][generate_btn = "disabled" => Len(threads') = Len(threads)]_vars
    /\ [](Cardinality(Generating) <= 1)

\* a generation whose document creation raised has ended, its callbacks have
\* run, and the button is enabled and the progress bar stopped
C23_Witness ==
    /\ \E t \in DOMAIN threads : threads[t].pc = "done" /\ threads[t].locals.outcome = "raises"
    /\ Generating = {}
    /\ after_queue = <<>>
    /\ generate_btn = "normal"
    /\ progress.ProcessingTab = "stopped"

====
